---- MODULE Spec2Model ----
(***************************************************************************)
(* Model of the try-on generation pipeline of backend/services/vton.py:    *)
(* the rejection classifier, the heuristic and LLM-assisted rewriters, the *)
(* sensitivity pre-flight and the retry state machine of                   *)
(* _generate_with_gemini.                                                  *)
(*                                                                         *)
(* Text is modelled as a sequence of lower-case word tokens; a hyphenated  *)
(* compound whose parts are matched separately by \b (semi-transparent)    *)
(* is two tokens, a phrase the code only handles as a whole (see-through)  *)
(* is one token.  Python's None is the token "NONE" for a finish reason.   *)
(***************************************************************************)
EXTENDS Integers, Sequences, FiniteSets, TLC

\* ------------------------------------------------------------------------
\* Bounds of the model (not program constants)
\* ------------------------------------------------------------------------

\* number of wearing directives a caller may put in wearing_instructions
MaxDirectives == 1

\* number of times is_content_rejection is called on the same arguments
MaxCalls == 2

\* number of subject images, and of garment images, a caller may send
MaxImages == 6

\* metadata objects a request may create, the caller's included
MaxObjects == 5

\* the latest reading of the clock, in seconds after the process started
MaxTime == 4

\* number of calls of check_rate_limit
MaxRateCalls == 5

\* ------------------------------------------------------------------------
\* Program constants
\* ------------------------------------------------------------------------

max_attempts == 4

\* defaults of the payload budget guard
max_total_image_bytes == 12 * 1024 * 1024

min_main_user_dim == 1600

min_main_user_jpeg_quality == 82

max_iters == 6

CONTENT_REJECTION_FINISH_REASONS == {"IMAGE_SAFETY", "SAFETY", "CONTENT_FILTER", "PROHIBITED_CONTENT"}

\* "safety filter(s)", "content policy" and "sexually explicit" contain the
\* shorter keywords "policy" / "explicit" or are matched as one token here.
CONTENT_REJECTION_KEYWORDS ==
    {"image_safety", "safety_filter", "safety_filters", "blocked", "block",
     "content_policy", "policy", "sexually_explicit", "sexual", "adult",
     "nsfw", "nudity", "explicit"}

INTIMATE_KEYWORDS ==
    {"lingerie", "underwear", "panties", "thong", "bra", "bralette", "bustier",
     "corset", "nude", "nudity", "sheer", "see-through", "see_through",
     "transparent", "fishnet"}

\* ------------------------------------------------------------------------
\* Text helpers
\* ------------------------------------------------------------------------

\* re.sub(rf"\b{old}\b", new, s): every occurrence of the token sequence old
\* in s is replaced by new, scanning left to right without rescanning.
RECURSIVE ReplaceSeq(_, _, _)
ReplaceSeq(s, old, new) ==
    IF Len(s) < Len(old) THEN s
    ELSE IF SubSeq(s, 1, Len(old)) = old
         THEN new \o ReplaceSeq(SubSeq(s, Len(old) + 1, Len(s)), old, new)
         ELSE <<Head(s)>> \o ReplaceSeq(Tail(s), old, new)

\* apply a replacement table (a sequence of <<old, new>>) in table order;
\* as in the loop of the code, the text after one replacement is computed
\* once (bound as `replaced`) before the next replacement starts
RECURSIVE ApplyTable(_, _)
ApplyTable(s, table) ==
    IF table = <<>> THEN s
    ELSE CHOOSE out \in {ApplyTable(replaced, Tail(table)) :
                            replaced \in {ReplaceSeq(s, Head(table)[1], Head(table)[2])}} : TRUE

\* any(k in text for k in keywords)
ContainsAny(text, keywords) == \E i \in 1..Len(text) : text[i] \in keywords

\* str.strip() on the finish reasons of the model
Strip(fr) ==
    CASE fr = " SAFETY "         -> "SAFETY"
      [] fr = "content_filter\n" -> "content_filter"
      [] OTHER                   -> fr

\* mutant: the comparison is case-sensitive
ToUpper_Identity(fr) == fr

\* str.upper() on the finish reasons of the model
ToUpper(fr) ==
    CASE fr = "image_safety"   -> "IMAGE_SAFETY"
      [] fr = "safety"         -> "SAFETY"
      [] fr = "Safety"         -> "SAFETY"
      [] fr = "content_filter" -> "CONTENT_FILTER"
      [] fr = "stop"           -> "STOP"
      [] OTHER                 -> fr

\* ------------------------------------------------------------------------
\* Rejection classifier
\* ------------------------------------------------------------------------

\* A safety rating entry is [category |-> token, probability |-> token], a
\* key that is absent holding "".  "sex", "explicit" and "sexual" are
\* substrings of the lower-cased category tokens below.
SexualCategories == {"harm_category_sexually_explicit", "sexual", "explicit"}

\* str.lower() on the category and probability tokens of the model
ToLower(t) ==
    CASE t = "HARM_CATEGORY_SEXUALLY_EXPLICIT" -> "harm_category_sexually_explicit"
      [] t = "HARM_CATEGORY_HARASSMENT" -> "harm_category_harassment"
      [] t = "Explicit" -> "explicit"
      [] t = "HIGH" -> "high"
      [] t = "High" -> "high"
      [] t = "MEDIUM" -> "medium"
      [] t = "LOW" -> "low"
      [] t = "NEGLIGIBLE" -> "negligible"
      [] OTHER -> t

\* mutant: category and probability are compared as they arrive
RatingSignals_CaseSensitive(r) ==
    r.category \in SexualCategories \/ r.probability \in {"high", "medium"}

\* the two tests of the loop body on one entry
RatingSignals(r) ==
    LET cat == ToLower(r.category)
        prob == ToLower(r.probability)
    IN  cat \in SexualCategories \/ prob \in {"high", "medium"}

\* mutant: the keyword scan runs only under the status test
is_content_rejection_StatusGated(finish_reason, http_status, error_text, safety_ratings) ==
    LET fr == IF finish_reason = "NONE" THEN "" ELSE ToUpper(Strip(finish_reason))
    IN  IF fr \in CONTENT_REJECTION_FINISH_REASONS THEN TRUE
        ELSE IF http_status \in {400, 403, 422} /\ ContainsAny(error_text, CONTENT_REJECTION_KEYWORDS) THEN TRUE
        ELSE IF \E i \in 1..Len(safety_ratings) : RatingSignals(safety_ratings[i]) THEN TRUE
        ELSE FALSE

\* is_content_rejection(finish_reason, http_status, error_text, safety_ratings)
\* http_status 0 stands for None, error_text <<>> for None or "".
is_content_rejection(finish_reason, http_status, error_text, safety_ratings) ==
    LET fr == IF finish_reason = "NONE" THEN "" ELSE ToUpper(Strip(finish_reason))
    IN  IF fr \in CONTENT_REJECTION_FINISH_REASONS THEN TRUE
        ELSE IF http_status \in {400, 403, 422} /\ ContainsAny(error_text, CONTENT_REJECTION_KEYWORDS) THEN TRUE
        ELSE IF \E i \in 1..Len(safety_ratings) : RatingSignals(safety_ratings[i]) THEN TRUE
        ELSE ContainsAny(error_text, CONTENT_REJECTION_KEYWORDS)

\* ------------------------------------------------------------------------
\* Styling metadata
\* ------------------------------------------------------------------------

\* A metadata object.  A string-valued key that is absent holds "absent";
\* description <<>> is an absent description; has_wi tells whether the key
\* wearing_instructions is present; items_index is the "index" of the entry
\* of items_wearing_styles: "absent" (no entry), "int", or "inf" (a float
\* that int() cannot convert, json.loads("1e999")).
EmptyMeta ==
    [description |-> <<>>, has_wi |-> FALSE, wearing_instructions |-> <<>>,
     items_index |-> "absent",
     framing |-> "absent", background |-> "absent", camera |-> "absent",
     pose |-> "absent", content_policy |-> "absent",
     modesty_contract |-> FALSE, intimate_mode |-> FALSE,
     allow_underlayer |-> "absent", coverage_preference |-> "absent",
     opacity_preference |-> "absent", avoid_closeups |-> "absent"]

\* mutant: the default replaces whatever the key holds
SetDefault_Overwrites(v, d) == d

\* dict.setdefault(key, d)
SetDefault(v, d) == IF v = "absent" THEN d ELSE v

\* ------------------------------------------------------------------------
\* Heuristic rewriter
\* ------------------------------------------------------------------------

\* the replacements dict of sanitize_text, in insertion order
HeuristicReplacements ==
    << << <<"lingerie">>,    <<"intimate", "apparel">> >>,
       << <<"thong">>,       <<"minimal", "undergarment">> >>,
       << <<"bra">>,         <<"supportive", "top">> >>,
       << <<"panties">>,     <<"undergarments">> >>,
       << <<"nude">>,        <<"neutral", "tone">> >>,
       << <<"see-through">>, <<"semi", "transparent">> >>,
       << <<"transparent">>, <<"semi", "transparent">> >>,
       << <<"sheer">>,       <<"semi", "transparent">> >>,
       << <<"fishnet">>,     <<"patterned", "fabric">> >>,
       << <<"fetish">>,      <<"specialty">> >>,
       << <<"bondage">>,     <<"restraint-style">> >>,
       << <<"stripper">>,    <<"dance", "wear">> >>,
       << <<"pole", "dancing">>, <<"fitness", "wear">> >>,
       << <<"provocative">>, <<"bold">> >>,
       << <<"sexy">>,        <<"stylish">> >>,
       << <<"seductive">>,   <<"elegant">> >>,
       << <<"risque">>,      <<"daring">> >>,
       << <<"cleavage">>,    <<"neckline", "area">> >> >>

\* sanitize_text of rewrite_for_modesty_heuristic
sanitize_text(s) == ApplyTable(s, HeuristicReplacements)

\* sanitize_value applied to the metadata dict: every string value is
\* passed through sanitize_text, every key is kept
sanitize_value(m) ==
    [m EXCEPT !.description = sanitize_text(@),
              !.wearing_instructions = sanitize_text(@)]

\* the SAFETY COMPLIANCE block appended to the prompt
Guidance(strictness) ==
    IF strictness = "max"
    THEN <<"safety_compliance", "semi", "transparent", "prioritize_compliance">>
    ELSE <<"safety_compliance", "semi", "transparent">>

\* the metadata returned by rewrite_for_modesty_heuristic
HeuristicMeta(metadata) ==
    LET safe == sanitize_value(metadata)
    IN  [safe EXCEPT !.framing = SetDefault(@, "three_quarter"),
                     !.background = SetDefault(@, "neutral studio background"),
                     !.camera = SetDefault(@, "professional fashion editorial, neutral studio, avoid close-ups"),
                     !.pose = SetDefault(@, "neutral standing pose"),
                     !.content_policy = SetDefault(@, "general_audience")]

\* mutant: the heuristic pass appends its guidance but leaves the text as
\* it received it
HeuristicText_Unsanitized(text, strictness) == text \o Guidance(strictness)

\* the text returned by rewrite_for_modesty_heuristic for a bare text
HeuristicText(text, strictness) == sanitize_text(text) \o Guidance(strictness)

\* the summary returned by rewrite_for_modesty_heuristic
HeuristicSummary(strictness) == strictness

\* ------------------------------------------------------------------------
\* Sensitivity classifier and modesty contract
\* ------------------------------------------------------------------------

\* is_intimate_request(meta, cat): the category hint, then a keyword scan of
\* the JSON dump of the metadata (the later per-key scans look at text the
\* dump already contains)
is_intimate_request(meta, cat) ==
    \/ cat \in {"intimates", "lingerie", "swimwear", "bikini"}
    \/ ContainsAny(meta.description, INTIMATE_KEYWORDS)
    \/ ContainsAny(meta.wearing_instructions, INTIMATE_KEYWORDS)

\* apply_modesty_contract(meta)
apply_modesty_contract(meta) ==
    [meta EXCEPT !.modesty_contract = TRUE,
                 !.intimate_mode = TRUE,
                 !.framing = SetDefault(@, "three_quarter"),
                 !.background = SetDefault(@, "neutral studio background"),
                 !.pose = SetDefault(@, "neutral standing pose"),
                 !.camera = SetDefault(@, "professional fashion editorial, neutral studio, avoid close-ups"),
                 !.content_policy = SetDefault(@, "general_audience"),
                 !.allow_underlayer = SetDefault(@, "true"),
                 !.coverage_preference = SetDefault(@, "high"),
                 !.opacity_preference = SetDefault(@, "opaque"),
                 !.avoid_closeups = SetDefault(@, "true")]

\* ------------------------------------------------------------------------
\* Prompt builder
\* ------------------------------------------------------------------------

\* the replacements dict of _sanitize_clothing_description, in insertion
\* order, for the words of the model's vocabulary
ClothingReplacements ==
    << << <<"lingerie">>,    <<"intimate", "apparel">> >>,
       << <<"intimate">>,    <<"delicate">> >>,
       << <<"bra">>,         <<"supportive", "top">> >>,
       << <<"sheer">>,       <<"semi", "transparent">> >>,
       << <<"transparent">>, <<"semi", "transparent">> >>,
       << <<"thong">>,       <<"minimal", "undergarment">> >>,
       << <<"sexy">>,        <<"stylish">> >>,
       << <<"nude">>,        <<"neutral", "tone">> >>,
       << <<"see-through">>, <<"semi", "transparent">> >>,
       << <<"fishnet">>,     <<"patterned">> >>,
       << <<"panties">>,     <<"undergarments">> >> >>

\* _sanitize_clothing_description(description)
sanitize_clothing_description(description) == ApplyTable(description, ClothingReplacements)

\* _sanitize_metadata_value applied to the metadata dict
sanitize_metadata_value(m) ==
    [m EXCEPT !.description = sanitize_clothing_description(@),
              !.wearing_instructions = sanitize_clothing_description(@)]

\* the MODESTY CONTRACT (MANDATORY) paragraph; it contains the word "sheer"
ModestyClause == <<"modesty_contract_mandatory", "sheer">>

\* A prompt is [built, base, clause, directives, tail]: base is the
\* sanitized metadata the template was filled from, clause the modesty
\* paragraph (<<>> when not emitted), directives the MANDATORY wearing
\* directives (<<>> when not emitted), tail everything appended after the
\* base prompt (compliance blocks, LLM additions).
NoPrompt == [built |-> FALSE, base |-> EmptyMeta, clause |-> <<>>, directives |-> <<>>, tail |-> <<>>]

\* build_base_text_prompt raises on this metadata: int(index) of a
\* non-finite float is an OverflowError, which the handler for
\* (TypeError, ValueError) does not catch
PromptBuildRaises(meta) == meta.items_index = "inf"

\* build_base_text_prompt(meta_for_prompt)[0], when it does not raise
build_base_text_prompt(meta) ==
    LET local_meta == sanitize_metadata_value(meta)
    IN  [built |-> TRUE,
         base |-> local_meta,
         clause |-> IF local_meta.modesty_contract \/ local_meta.intimate_mode
                    THEN ModestyClause ELSE <<>>,
         directives |-> IF local_meta.has_wi
                        THEN sanitize_clothing_description(local_meta.wearing_instructions)
                        ELSE <<>>,
         tail |-> <<>>]

\* sanitize_text(prompt) + guidance, for a prompt
HeuristicPrompt(prompt, strictness) ==
    [prompt EXCEPT !.base = sanitize_value(@),
                   !.clause = sanitize_text(@),
                   !.directives = sanitize_text(@),
                   !.tail = sanitize_text(@) \o Guidance(strictness)]

\* the retry suffix of attempt n
RetrySuffix(n) ==
    CASE n = 2 -> "RETRY: professional, conservative"
      [] n = 3 -> "RETRY: increase coverage and opacity"
      [] n = 4 -> "RETRY (MAX SAFETY)"
      [] OTHER -> ""

\* ------------------------------------------------------------------------
\* Inputs: caller metadata, image-API responses, vision and rewrite replies
\* ------------------------------------------------------------------------

\* wearing directives a caller may give: 1..MaxDirectives words
RECURSIVE Directive(_)
Directive(n) == IF n = 0 THEN <<>> ELSE Directive(n - 1) \o <<"tucked">>

Directives == {Directive(n) : n \in 1..MaxDirectives}

Descriptions == {<<"tshirt">>, <<"lingerie">>}

\* garment_metadata objects a caller may pass
CallerMetas ==
    {[EmptyMeta EXCEPT !.description = d, !.items_index = ix] :
        d \in Descriptions, ix \in {"absent", "inf"}}
    \cup
    {[EmptyMeta EXCEPT !.description = d, !.has_wi = TRUE, !.wearing_instructions = w] :
        d \in Descriptions, w \in Directives}
    \cup
    {[EmptyMeta EXCEPT !.description = <<"tshirt">>, !.framing = "full_body"]}

\* (garment_metadata, category) pairs a caller may pass: every metadata
\* with the default category, and a neutral metadata with an intimate one
Requests ==
    {<<m, "upper_body">> : m \in CallerMetas}
    \cup {<<[EmptyMeta EXCEPT !.description = <<"tshirt">>], "lingerie">>}

\* An image-API outcome: kind "response" (an HTTP response arrived),
\* "timeout" (httpx.TimeoutException) or "exception" (any other exception
\* raised while calling or decoding).  text is response.text for a failed
\* status, str(data) when there is no candidate, the first text part
\* otherwise.  finish is the raw finishReason ("NONE" when the key is
\* absent).  image tells which key of the first image-bearing part exists
\* and whether its data is non-empty.
Rsp(kind, ok, status, text, cands, finish, ratings, image) ==
    [kind |-> kind, is_success |-> ok, status |-> status, text |-> text,
     has_candidates |-> cands, finish |-> finish, ratings |-> ratings, image |-> image]

HighRating == <<[category |-> "harm_category_sexually_explicit", probability |-> "high"]>>
MediumOther == <<[category |-> "harm_category_harassment", probability |-> "medium"]>>
LowOther == <<[category |-> "harm_category_harassment", probability |-> "negligible"]>>

Responses ==
    { Rsp("timeout",   FALSE, 0,   <<>>, FALSE, "NONE", <<>>, "none"),
      Rsp("exception", FALSE, 0,   <<>>, FALSE, "NONE", <<>>, "none"),
      Rsp("response",  FALSE, 500, <<"internal", "error">>, FALSE, "NONE", <<>>, "none"),
      Rsp("response",  FALSE, 400, <<"blocked", "policy">>, FALSE, "NONE", <<>>, "none"),
      Rsp("response",  FALSE, 500, <<"blocked">>, FALSE, "NONE", <<>>, "none"),
      Rsp("response",  TRUE,  200, <<>>, FALSE, "NONE", <<>>, "none"),
      Rsp("response",  TRUE,  200, <<"promptfeedback", "block", "reason">>, FALSE, "NONE", <<>>, "none"),
      Rsp("response",  TRUE,  200, <<>>, TRUE, "STOP", <<>>, "inline_data"),
      Rsp("response",  TRUE,  200, <<>>, TRUE, "STOP", <<>>, "inlineData"),
      Rsp("response",  TRUE,  200, <<>>, TRUE, "NONE", <<>>, "inline_data"),
      Rsp("response",  TRUE,  200, <<>>, TRUE, "",     <<>>, "inlineData"),
      Rsp("response",  TRUE,  200, <<"here", "you", "go">>, TRUE, "STOP", <<>>, "none"),
      Rsp("response",  TRUE,  200, <<>>, TRUE, "STOP", LowOther, "inlineData_empty"),
      Rsp("response",  TRUE,  200, <<>>, TRUE, "STOP", MediumOther, "none"),
      Rsp("response",  TRUE,  200, <<"blocked">>, TRUE, "IMAGE_SAFETY", HighRating, "none"),
      Rsp("response",  TRUE,  200, <<>>, TRUE, "IMAGE_SAFETY", <<>>, "inline_data"),
      Rsp("response",  TRUE,  200, <<>>, TRUE, "IMAGE_OTHER", <<>>, "none"),
      Rsp("response",  TRUE,  200, <<>>, TRUE, "MAX_TOKENS", <<>>, "inlineData") }

\* outcomes of the vision sensitivity call
VisionOutcomes == {"intimate", "not_intimate", "http_error", "timeout", "bad_json"}

\* A reply of the text-rewrite API as rewrite_for_modesty_gemini sees it.
\* kind "ok" is a reply whose text parses to a JSON object; meta says what
\* its "metadata" member is: "missing" (absent, empty or not an object),
\* "echo" (the metadata it was sent, every key kept), "omits" (an object
\* with description and framing only), "inf" (an object whose
\* items_wearing_styles index is a non-finite float).
RewriteFailures == {"http_error", "timeout", "no_candidates", "empty_text", "bad_json", "non_object"}

RewriteReplies ==
    {[kind |-> k, meta |-> "missing", additions |-> <<>>] : k \in RewriteFailures}
    \cup
    {[kind |-> "ok", meta |-> "missing", additions |-> <<>>],
     [kind |-> "ok", meta |-> "echo",    additions |-> <<"avoid", "sheer">>],
     [kind |-> "ok", meta |-> "omits",   additions |-> <<"avoid", "sheer">>],
     [kind |-> "ok", meta |-> "inf",     additions |-> <<>>]}

\* parsed.get("metadata") of a reply, given the metadata that was sent
ReplyMeta(reply, metadata) ==
    CASE reply.meta = "echo"  -> metadata
      [] reply.meta = "omits" -> [EmptyMeta EXCEPT !.description = <<"intimate", "apparel">>,
                                                   !.framing = "three_quarter"]
      [] reply.meta = "inf"   -> [metadata EXCEPT !.items_index = "inf"]
      [] OTHER                -> EmptyMeta

\* new_meta of rewrite_for_modesty_gemini:
\* parsed.get("metadata") or (metadata or {}), kept only if it is a dict
GeminiNewMeta(reply, metadata) ==
    IF reply.meta = "missing" THEN metadata ELSE ReplyMeta(reply, metadata)

\* ------------------------------------------------------------------------
\* State of one generate_try_on request
\* ------------------------------------------------------------------------

VARIABLES
    pc,                   \* where the coroutine is: "start", "vision", "attempt", "image", "rewrite", "success", "raised"
    api_key,              \* whether GEMINI_API_KEY or GOOGLE_API_KEY is set
    category,             \* the category argument
    garment_metadata,     \* the caller's metadata object
    intimate_flag,
    modesty_applied,
    current_metadata,
    current_prompt,
    attempt,              \* loop variable of the retry loop (0 before the loop)
    retry_info,           \* the audit trail
    response,             \* the image-API outcome being handled (none while a request is in flight)
    result,               \* what generate_try_on returned or raised
    sent,                 \* the image-generation requests issued so far
    vision_calls,         \* vision-check requests issued
    vision_outcome,       \* how the vision check ended, while the pre-flight handles it ("none" otherwise)
    rewrite_calls,        \* text-rewrite requests issued
    rewrite_outcome,      \* how the LLM-assisted rewrite of the current failure ended ("none" if not tried)
    rejections,           \* history: image-API outcomes for which should_rewrite was True
    safety_finishes,      \* history: candidates whose finish reason was a safety finish reason
    skipped,              \* history: rewrites abandoned because rebuilding the prompt raised
    timeouts_only,        \* history: every image-generation call so far ended in httpx.TimeoutException
    \* -- is_content_rejection called on a synthetic payload
    cls_args,             \* the keyword arguments of the calls
    cls_verdicts,         \* the values returned so far, in call order
    \* -- the images of a request, from upload to the encoded payload
    entry,                \* "endpoint" (POST /api/try-on) or "direct" (generate_try_on called by code)
    n_user_images,        \* subject images received
    n_clothing_images,    \* garment images received
    prep_pc,              \* "received", "called", "budget", "generate", "rejected"
    prep_status,          \* HTTP status of a rejection (0 when none)
    kept_user,            \* len(limited_user_images)
    kept_clothing,        \* len(limited_garments)
    knobs,                \* the dimension and quality targets of build_encoded_images
    total_image_bytes,
    budget_i,             \* iterations of `for _i in range(max_iters)` started
    reencodes,            \* history: calls of build_encoded_images inside the loop
    \* -- one call of normalize_image_bytes_with_budget
    nb_args,              \* image size and keyword arguments
    nb_pc,                \* "idle", "loop", "returned"
    nb_dim,
    nb_q,
    nb_iter,              \* iterations of `for _ in range(8)` started
    nb_encodings,         \* history: what normalize_image_bytes returned, in call order
    nb_tried,             \* history: the <<max_dimension, jpeg_quality>> of those calls
    nb_out,               \* the returned (bytes, width, height)
    \* -- the metadata objects of a request and the references to them
    heap,                 \* the objects created so far, object 1 being the caller's garment_metadata
    current_ref,          \* the object current_metadata refers to (0 before it is assigned)
    new_meta_ref,         \* the object rewrite_for_modesty_gemini returned (0 when none is pending)
    \* -- the in-memory rate limiter of the API process
    rate_buckets,         \* _rate_buckets: key -> <<count, expires_at>>
    rate_limit,           \* the limit argument of the calls
    rate_window,          \* the window_seconds argument of the calls
    rate_clock,           \* the latest value time.time() returned
    rate_log              \* history: the calls of check_rate_limit, in order

vars == <<pc, api_key, category, garment_metadata, intimate_flag, modesty_applied,
          current_metadata, current_prompt, attempt, retry_info,
          response, result, sent, vision_calls, vision_outcome, rewrite_calls, rewrite_outcome,
          rejections, safety_finishes, skipped, timeouts_only,
          cls_args, cls_verdicts,
          entry, n_user_images, n_clothing_images, prep_pc, prep_status, kept_user,
          kept_clothing, knobs, total_image_bytes, budget_i, reencodes,
          nb_args, nb_pc, nb_dim, nb_q, nb_iter, nb_encodings, nb_tried, nb_out,
          heap, current_ref, new_meta_ref,
          rate_buckets, rate_limit, rate_window, rate_clock, rate_log>>

\* the state of one generate_try_on request
request == <<pc, api_key, category, garment_metadata, intimate_flag, modesty_applied,
             current_metadata, current_prompt, attempt, retry_info,
             response, result, sent, vision_calls, vision_outcome, rewrite_calls, rewrite_outcome,
             rejections, safety_finishes, skipped, timeouts_only>>

classifier == <<cls_args, cls_verdicts>>

prep == <<entry, n_user_images, n_clothing_images, prep_pc, prep_status, kept_user,
          kept_clothing, knobs, total_image_bytes, budget_i, reencodes>>

normalizer == <<nb_args, nb_pc, nb_dim, nb_q, nb_iter, nb_encodings, nb_tried, nb_out>>

objects == <<heap, current_ref, new_meta_ref>>

limiter == <<rate_buckets, rate_limit, rate_window, rate_clock, rate_log>>

history == <<rejections, safety_finishes, skipped, timeouts_only>>

inputs == <<api_key, category, garment_metadata>>

NoResponse == Rsp("none", FALSE, 0, <<>>, FALSE, "NONE", <<>>, "none")

NoResult == [type |-> "none", error_kind |-> "", finish |-> "", hint |-> FALSE, status |-> 0, attempt |-> 0]

\* an entry of retry_info
Record(n, strategy, reason, summary) ==
    [attempt |-> n, strategy |-> strategy, reason |-> reason, modificationsSummary |-> summary]

\* the initial dimension and quality targets of the payload budget guard
InitialKnobs ==
    [main_user_dim |-> 2200, other_user_dim |-> 1600,
     first_garment_dim |-> 1800, other_garment_dim |-> 1400,
     main_user_q |-> 90, other_user_q |-> 82,
     first_garment_q |-> 86, other_garment_q |-> 80]

NoClassifierArgs == [finish |-> "NONE", status |-> 0, text |-> <<>>, ratings |-> <<>>]

NoNormalizeArgs ==
    [w |-> 0, h |-> 0, max_bytes |-> 0, max_dimension |-> 0, min_dimension |-> 0,
     jpeg_quality |-> 0, min_jpeg_quality |-> 0]

NoEncoding == [bytes |-> 0, w |-> 0, h |-> 0]

\* no classifier call is being studied
ClassifierIdle ==
    /\ cls_args = NoClassifierArgs
    /\ cls_verdicts = <<>>

\* the image preparation is not being studied: it is over, with one
\* subject image and one garment image encoded at the initial targets and
\* within the budget
PrepIdle ==
    /\ entry = "direct"
    /\ n_user_images = 1
    /\ n_clothing_images = 1
    /\ prep_pc = "generate"
    /\ prep_status = 0
    /\ kept_user = 1
    /\ kept_clothing = 1
    /\ knobs = InitialKnobs
    /\ total_image_bytes = 6000000
    /\ budget_i = 0
    /\ reencodes = 0

\* the metadata objects are not being studied
ObjectsIdle ==
    /\ heap = <<>>
    /\ current_ref = 0
    /\ new_meta_ref = 0

\* the rate limiter is not being studied: the process has just started
LimiterIdle ==
    /\ rate_buckets = <<>>
    /\ rate_limit = 10
    /\ rate_window = 60
    /\ rate_clock = 0
    /\ rate_log = <<>>

\* no normalization call is being studied
NormalizerIdle ==
    /\ nb_args = NoNormalizeArgs
    /\ nb_pc = "idle"
    /\ nb_dim = 0
    /\ nb_q = 0
    /\ nb_iter = 0
    /\ nb_encodings = <<>>
    /\ nb_tried = <<>>
    /\ nb_out = NoEncoding

Init ==
    /\ ClassifierIdle
    /\ PrepIdle
    /\ NormalizerIdle
    /\ ObjectsIdle
    /\ LimiterIdle
    /\ pc = "start"
    /\ api_key \in BOOLEAN
    /\ \E rq \in Requests :
          /\ garment_metadata = rq[1]
          /\ category = rq[2]
    /\ intimate_flag = FALSE
    /\ modesty_applied = FALSE
    /\ current_metadata = EmptyMeta
    /\ current_prompt = NoPrompt
    /\ attempt = 0
    /\ retry_info = <<>>
    /\ response = NoResponse
    /\ result = NoResult
    /\ sent = <<>>
    /\ vision_calls = 0
    /\ vision_outcome = "none"
    /\ rewrite_calls = 0
    /\ rewrite_outcome = "none"
    /\ rejections = 0
    /\ safety_finishes = 0
    /\ skipped = 0
    /\ timeouts_only = TRUE

\* ------------------------------------------------------------------------
\* Pre-flight
\* ------------------------------------------------------------------------

\* mutant: the pipeline sanitizes but never applies the contract
PipelineMeta_NoContract(meta) == HeuristicMeta(meta)

\* mutant: the pre-flight heuristic pass is not recorded
PipelineTrail_OneRecord(meta, trail, reason) ==
    Append(trail, Record(1, "modesty_contract_preflight", reason, "modesty_contract"))

\* apply_intimate_pipeline(reason): the metadata and the audit trail it leaves
PipelineMeta(meta) ==
    LET contracted == apply_modesty_contract(meta)
    IN  IF PromptBuildRaises(contracted) THEN contracted
        ELSE apply_modesty_contract(HeuristicMeta(contracted))

PipelineTrail(meta, trail, reason) ==
    LET first == Append(trail, Record(1, "modesty_contract_preflight", reason, "modesty_contract"))
    IN  IF PromptBuildRaises(apply_modesty_contract(meta)) THEN first
        ELSE Append(first, Record(1, "preflight_heuristic", reason, HeuristicSummary("moderate")))

\* mutant: the exception is swallowed and the coroutine stays where it was
Raise_Swallowed(kind, fin, hint, status) ==
    /\ pc' = pc
    /\ result' = result

\* an exception leaves generate_try_on
Raise(kind, fin, hint, status) ==
    /\ pc' = "raised"
    /\ result' = [type |-> "error", error_kind |-> kind, finish |-> fin, hint |-> hint,
                  status |-> status, attempt |-> attempt]

\* from the end of the sensitivity check to the head of the retry loop:
\* the intimate pipeline when flagged, then the base prompt
EnterLoop(flag, trail) ==
    LET meta == IF flag THEN PipelineMeta(garment_metadata) ELSE garment_metadata
    IN  /\ intimate_flag' = flag
        /\ modesty_applied' = flag
        /\ current_metadata' = meta
        /\ retry_info' = IF flag THEN PipelineTrail(garment_metadata, trail, "intimate_detected") ELSE trail
        /\ IF PromptBuildRaises(meta)
           THEN /\ Raise("prompt_build", "", FALSE, 0)
                /\ UNCHANGED <<current_prompt, attempt>>
           ELSE /\ current_prompt' = build_base_text_prompt(meta)
                /\ attempt' = 1
                /\ pc' = "attempt"
                /\ UNCHANGED result

\* mutant: the credential check is skipped
ApiKeyMissing_Never == FALSE

\* `if not api_key`: neither GEMINI_API_KEY nor GOOGLE_API_KEY is set
ApiKeyMissing == ~api_key

\* generate_try_on from its entry to its first await
Start ==
    /\ pc = "start"
    /\ UNCHANGED <<classifier, prep, normalizer, objects, limiter>>
    /\ IF ApiKeyMissing
       THEN /\ Raise("configuration", "", FALSE, 0)
            /\ UNCHANGED <<intimate_flag, modesty_applied, current_metadata, current_prompt,
                           attempt, retry_info, vision_calls>>
       ELSE IF is_intimate_request(garment_metadata, category)
            THEN /\ EnterLoop(TRUE, <<>>)
                 /\ UNCHANGED vision_calls
            ELSE \E detect_enabled \in BOOLEAN :
                    IF detect_enabled /\ kept_clothing > 0
                    THEN /\ pc' = "vision"
                         /\ vision_calls' = vision_calls + 1
                         /\ current_metadata' = garment_metadata
                         /\ UNCHANGED <<intimate_flag, modesty_applied, current_prompt,
                                        attempt, retry_info, result>>
                    ELSE /\ EnterLoop(FALSE, <<>>)
                         /\ UNCHANGED vision_calls
    /\ UNCHANGED <<inputs, response, sent, vision_outcome, rewrite_calls, rewrite_outcome, history>>

\* mutant: a vision check that fails counts as a detection
VisionReturn_FailsClosed(outcome) ==
    /\ pc = "vision"
    /\ UNCHANGED <<classifier, prep, normalizer, objects, limiter>>
    /\ IF outcome # "not_intimate"
       THEN EnterLoop(TRUE, <<Record(1, "intimate_vision_detect", "gemini_vision", "label")>>)
       ELSE EnterLoop(FALSE, <<>>)
    /\ vision_outcome' = outcome
    /\ UNCHANGED <<inputs, response, sent, vision_calls, rewrite_calls, rewrite_outcome, history>>

\* the vision sensitivity call returns, fails or times out
VisionReturn(outcome) ==
    /\ pc = "vision"
    /\ UNCHANGED <<classifier, prep, normalizer, objects, limiter>>
    /\ IF outcome = "intimate"
       THEN EnterLoop(TRUE, <<Record(1, "intimate_vision_detect", "gemini_vision", "label")>>)
       ELSE EnterLoop(FALSE, <<>>)
    /\ vision_outcome' = outcome
    /\ UNCHANGED <<inputs, response, sent, vision_calls, rewrite_calls, rewrite_outcome, history>>

\* ------------------------------------------------------------------------
\* Retry loop
\* ------------------------------------------------------------------------

\* user_data as build_encoded_images returns it for the targets k: one
\* entry per kept subject image, the main one (main_index 0, the default)
\* encoded at the main targets
EncodedUsers(k) ==
    [i \in 1..kept_user |->
        [role |-> "user", index |-> i,
         max_dim |-> IF i = 1 THEN k.main_user_dim ELSE k.other_user_dim,
         jpeg_quality |-> IF i = 1 THEN k.main_user_q ELSE k.other_user_q]]

\* garment_data as build_encoded_images returns it for the targets k
EncodedGarments(k) ==
    [i \in 1..kept_clothing |->
        [role |-> "item", index |-> i,
         max_dim |-> IF i = 1 THEN k.first_garment_dim ELSE k.other_garment_dim,
         jpeg_quality |-> IF i = 1 THEN k.first_garment_q ELSE k.other_garment_q]]

\* the two lists the payload budget guard leaves behind
user_data == EncodedUsers(knobs)

garment_data == EncodedGarments(knobs)

\* the image of a part that carries none
NoImage == [role |-> "none", index |-> 0, max_dim |-> 0, jpeg_quality |-> 0]

\* an inline_data part
ImagePartOf(item) == [kind |-> "inline_data", text |-> <<>>, data |-> item]

\* mutant: from the second attempt on the images are encoded again, the
\* main reference at its smallest dimension
build_parts_ReencodesOnRetry(text_prompt_value) ==
    LET k == IF attempt > 1 THEN [knobs EXCEPT !.main_user_dim = min_main_user_dim] ELSE knobs
    IN  <<[kind |-> "text", text |-> text_prompt_value, data |-> NoImage]>>
        \o [i \in 1..kept_user |-> ImagePartOf(EncodedUsers(k)[i])]
        \o [i \in 1..kept_clothing |-> ImagePartOf(EncodedGarments(k)[i])]

\* build_parts(text_prompt_value): the text part, then the subject images,
\* then the garment images
build_parts(text_prompt_value) ==
    <<[kind |-> "text", text |-> text_prompt_value, data |-> NoImage]>>
    \o [i \in 1..kept_user |-> ImagePartOf(user_data[i])]
    \o [i \in 1..kept_clothing |-> ImagePartOf(garment_data[i])]

\* mutant: the next request goes out while the rewrite call is still awaited
IssueAttempt_WhileRewriting ==
    /\ pc \in {"attempt", "rewrite"}
    /\ UNCHANGED <<classifier, prep, normalizer, objects, limiter>>
    /\ sent' = Append(sent, [attempt |-> attempt, prompt |-> current_prompt,
                             suffix |-> RetrySuffix(attempt), metadata |-> current_metadata,
                             parts |-> build_parts(<<current_prompt, RetrySuffix(attempt)>>)])
    /\ response' = NoResponse
    /\ rewrite_outcome' = "none"
    /\ vision_outcome' = "none"
    /\ pc' = "image"
    /\ UNCHANGED <<inputs, intimate_flag, modesty_applied, current_metadata, current_prompt,
                   attempt, retry_info, result, vision_calls, rewrite_calls, history>>

\* top of the loop body up to the await of _gemini_post_json: the request
\* text is current_prompt + retry_suffix, the parts are build_parts of it
IssueAttempt ==
    /\ pc = "attempt"
    /\ UNCHANGED <<classifier, prep, normalizer, objects, limiter>>
    /\ sent' = Append(sent, [attempt |-> attempt, prompt |-> current_prompt,
                             suffix |-> RetrySuffix(attempt), metadata |-> current_metadata,
                             parts |-> build_parts(<<current_prompt, RetrySuffix(attempt)>>)])
    /\ response' = NoResponse
    /\ rewrite_outcome' = "none"
    /\ vision_outcome' = "none"
    /\ pc' = "image"
    /\ UNCHANGED <<inputs, intimate_flag, modesty_applied, current_metadata, current_prompt,
                   attempt, retry_info, result, vision_calls, rewrite_calls, history>>

\* summarize_candidate: finishReason or finish_reason, None when falsy
FinishReason(r) == IF r.finish = "" THEN "NONE" ELSE r.finish

\* mutant: an image part with empty data is accepted
ImagePart_AcceptsEmpty(r) == r.image # "none"

\* the search for the first part with non-empty inline image data
ImagePart(r) == r.image \in {"inline_data", "inlineData"}

\* mutant: an empty candidate list is handled by the candidate branch
Branch_EmptyAsCandidate(r) ==
    CASE r.kind = "timeout"   -> "timeout"
      [] r.kind = "exception" -> "exception"
      [] ~r.is_success        -> "http_error"
      [] ImagePart(r) /\ FinishReason(r) \in {"NONE", "STOP"} -> "success"
      [] OTHER                -> "no_image_or_finish_reason"

\* which branch of the loop body handles the outcome
Branch(r) ==
    CASE r.kind = "timeout"   -> "timeout"
      [] r.kind = "exception" -> "exception"
      [] ~r.is_success        -> "http_error"
      [] ~r.has_candidates    -> "no_candidates"
      [] ImagePart(r) /\ FinishReason(r) \in {"NONE", "STOP"} -> "success"
      [] OTHER                -> "no_image_or_finish_reason"

\* mutant: a response without candidates always counts as a rejection
ShouldRewrite_EmptyIsRejection(r) ==
    CASE Branch(r) = "http_error"    -> is_content_rejection("NONE", r.status, r.text, <<>>)
      [] Branch(r) = "no_candidates" -> TRUE
      [] Branch(r) = "no_image_or_finish_reason" ->
            is_content_rejection(FinishReason(r), 0, r.text, r.ratings)
      [] OTHER -> FALSE

\* should_rewrite as the branch computes it
ShouldRewrite(r) ==
    CASE Branch(r) = "http_error"    -> is_content_rejection("NONE", r.status, r.text, <<>>)
      [] Branch(r) = "no_candidates" -> is_content_rejection("NONE", 0, r.text, <<>>)
      [] Branch(r) = "no_image_or_finish_reason" ->
            is_content_rejection(FinishReason(r), 0, r.text, r.ratings)
      [] OTHER -> FALSE

\* (finish_reason or "").upper().startswith("IMAGE_")
StartsWithImage(fr) == ToUpper(fr) \in {"IMAGE_SAFETY", "IMAGE_OTHER"}

\* mutant: the exhaustion message never carries the safety hint
SafetyHint_Never(r) == FALSE

\* safety_hint is non-empty
SafetyHint(r) ==
    \/ ToUpper(FinishReason(r)) = "IMAGE_SAFETY"
    \/ ShouldRewrite(r)
    \/ StartsWithImage(FinishReason(r))

\* mutant: the third failure does not escalate
Strictness_NeverMax(n) == "moderate"

\* strictness of the rewrite after a rejection of attempt n
Strictness(n) == IF n = 3 THEN "max" ELSE "moderate"

\* mutant: the last-attempt test is off by one
IsLast_OffByOne(n) == n = max_attempts + 1

\* attempt == max_attempts
IsLast(n) == n = max_attempts

\* `continue`: the next iteration starts with this metadata, prompt and trail
Continue(meta, prompt, trail) ==
    /\ pc' = "attempt"
    /\ attempt' = attempt + 1
    /\ current_metadata' = meta
    /\ current_prompt' = prompt
    /\ retry_info' = trail
    /\ UNCHANGED result

\* mutant: a plain retry leaves a record in the audit trail
Retry_Records ==
    Continue(current_metadata, current_prompt,
             Append(retry_info, Record(attempt + 1, "none", "transient", "")))

\* `continue` without any rewrite
Retry == Continue(current_metadata, current_prompt, retry_info)

\* the heuristic rewrite from a freshly built base prompt (attempt 1, and
\* the no-candidates branch); build_base_text_prompt raising is caught by
\* the loop's `except Exception`, which continues
HeuristicFromBase(reason) ==
    IF PromptBuildRaises(current_metadata)
    THEN /\ Retry
         /\ skipped' = skipped + 1
    ELSE /\ Continue(HeuristicMeta(current_metadata),
                     HeuristicPrompt(build_base_text_prompt(current_metadata), "moderate"),
                     Append(retry_info, Record(attempt + 1, "heuristic", reason,
                                               HeuristicSummary("moderate"))))
         /\ UNCHANGED skipped

\* mutant: the fallback rewrites but forgets its record
Fallback_NoRecord(meta, strictness) ==
    Continue(HeuristicMeta(meta), HeuristicPrompt(current_prompt, strictness), retry_info)

\* the `except Exception` fallback of the LLM-assisted rewrite, run on the
\* metadata that is current when the exception is caught
Fallback(meta, strictness) ==
    Continue(HeuristicMeta(meta),
             HeuristicPrompt(current_prompt, strictness),
             Append(retry_info, Record(attempt + 1, "heuristic", "gemini_rewrite_failed_fallback",
                                       HeuristicSummary(strictness))))

\* mutant: the ladder counts the rejections seen so far instead of reading
\* the attempt number
Rewrite_FailureIndexed ==
    IF rejections = 0
    THEN /\ HeuristicFromBase("content_rejection")
         /\ UNCHANGED <<rewrite_calls, rewrite_outcome>>
    ELSE \E rewrite_enabled \in BOOLEAN :
            IF rewrite_enabled
            THEN /\ pc' = "rewrite"
                 /\ rewrite_calls' = rewrite_calls + 1
                 /\ UNCHANGED <<attempt, current_metadata, current_prompt, retry_info, result,
                                rewrite_outcome, skipped>>
            ELSE /\ Fallback(current_metadata, Strictness(attempt))
                 /\ rewrite_outcome' = "disabled"
                 /\ UNCHANGED <<rewrite_calls, skipped>>

\* the rewrite ladder of the http-error and candidate branches
Rewrite ==
    IF attempt = 1
    THEN /\ HeuristicFromBase("content_rejection")
         /\ UNCHANGED <<rewrite_calls, rewrite_outcome>>
    ELSE \E rewrite_enabled \in BOOLEAN :
            IF rewrite_enabled
            THEN /\ pc' = "rewrite"
                 /\ rewrite_calls' = rewrite_calls + 1
                 /\ UNCHANGED <<attempt, current_metadata, current_prompt, retry_info, result,
                                rewrite_outcome, skipped>>
            ELSE /\ Fallback(current_metadata, Strictness(attempt))
                 /\ rewrite_outcome' = "disabled"
                 /\ UNCHANGED <<rewrite_calls, skipped>>

\* the image-generation call returns, fails or times out, and the loop body
\* handles it up to its next await
ImageReturn(r) ==
    /\ pc = "image"
    /\ UNCHANGED <<classifier, prep, normalizer, objects, limiter>>
    /\ response' = r
    /\ timeouts_only' = (timeouts_only /\ r.kind = "timeout")
    /\ rejections' = IF ShouldRewrite(r) THEN rejections + 1 ELSE rejections
    /\ safety_finishes' = IF Branch(r) = "no_image_or_finish_reason"
                             /\ ToUpper(FinishReason(r)) \in CONTENT_REJECTION_FINISH_REASONS
                          THEN safety_finishes + 1 ELSE safety_finishes
    /\ LET b == Branch(r)
           last == IsLast(attempt)
           fail == /\ IF last
                      THEN /\ CASE b = "http_error" -> Raise(b, "", FALSE, r.status)
                                [] b = "no_image_or_finish_reason" ->
                                      Raise(b, FinishReason(r), SafetyHint(r), 0)
                                [] OTHER -> Raise(b, "", FALSE, 0)
                           /\ UNCHANGED <<attempt, current_metadata, current_prompt, retry_info>>
                      ELSE Retry
                   /\ UNCHANGED <<rewrite_calls, rewrite_outcome, skipped>>
       IN  CASE b = "success" ->
                  /\ pc' = "success"
                  /\ result' = [type |-> "success", error_kind |-> "", finish |-> FinishReason(r),
                                hint |-> FALSE, status |-> r.status, attempt |-> attempt]
                  /\ UNCHANGED <<attempt, current_metadata, current_prompt, retry_info,
                                 rewrite_calls, rewrite_outcome, skipped>>
             [] b = "no_candidates" /\ ShouldRewrite(r) /\ ~last ->
                  /\ HeuristicFromBase("no_candidates")
                  /\ UNCHANGED <<rewrite_calls, rewrite_outcome>>
             [] b \in {"http_error", "no_image_or_finish_reason"} /\ ShouldRewrite(r) /\ ~last ->
                  Rewrite
             [] OTHER -> fail
    /\ UNCHANGED <<inputs, intimate_flag, modesty_applied, sent, vision_calls, vision_outcome>>

\* the text-rewrite call returns, fails or times out; the rewrite finishes
RewriteReturn(reply) ==
    /\ pc = "rewrite"
    /\ UNCHANGED <<classifier, prep, normalizer, objects, limiter>>
    /\ rewrite_outcome' = reply.kind
    /\ LET strictness == Strictness(attempt)
           sanitized_meta == HeuristicMeta(GeminiNewMeta(reply, current_metadata))
       IN  IF reply.kind # "ok"
           THEN Fallback(current_metadata, strictness)
           ELSE IF PromptBuildRaises(sanitized_meta)
           THEN Fallback(sanitized_meta, strictness)
           ELSE Continue(sanitized_meta,
                         [build_base_text_prompt(sanitized_meta) EXCEPT
                             !.tail = HeuristicText(reply.additions, strictness)],
                         Append(retry_info, Record(attempt + 1, "gemini_rewrite", "content_rejection",
                                                   HeuristicSummary(strictness))))
    /\ UNCHANGED <<inputs, intimate_flag, modesty_applied, response,
                   sent, vision_calls, vision_outcome, rewrite_calls, history>>

\* ------------------------------------------------------------------------
\* What the caller and the HTTP client receive on success
\* ------------------------------------------------------------------------

\* the dict returned by _generate_with_gemini on success
GenerateResult ==
    [image_url |-> "data_url", retry_info |-> retry_info, modesty_applied |-> modesty_applied]

\* the JSON body the POST /api/try-on handler builds from that dict
try_on_response(res) ==
    [image_url |-> res.image_url, retry_info |-> res.retry_info]

Next ==
    \/ Start
    \/ \E outcome \in VisionOutcomes : VisionReturn(outcome)
    \/ IssueAttempt
    \/ \E r \in Responses : ImageReturn(r)
    \/ \E reply \in RewriteReplies : RewriteReturn(reply)

Spec == Init /\ [][Next]_vars

\* ------------------------------------------------------------------------
\* is_content_rejection on synthetic payloads
\* ------------------------------------------------------------------------

\* finish_reason values of the synthetic payloads: None, the four safety
\* values in several spellings, and values that are not safety values
FinishReasons ==
    {"NONE", "STOP", "stop", "IMAGE_OTHER",
     "IMAGE_SAFETY", "image_safety", "SAFETY", "Safety", " SAFETY ",
     "CONTENT_FILTER", "content_filter\n", "PROHIBITED_CONTENT"}

\* safety_ratings values of the synthetic payloads: none, entries without
\* signal, a probability alone (category key absent), a category alone, and
\* a signalling entry behind one that does not signal, in the upper-case
\* spelling of the API and in others
SyntheticRatings ==
    {<<>>,
     LowOther,
     MediumOther,
     <<[category |-> "HARM_CATEGORY_HARASSMENT", probability |-> "LOW"]>>,
     <<[category |-> "", probability |-> "MEDIUM"]>>,
     <<[category |-> "HARM_CATEGORY_SEXUALLY_EXPLICIT", probability |-> "NEGLIGIBLE"]>>,
     <<[category |-> "Explicit", probability |-> ""]>>,
     <<[category |-> "HARM_CATEGORY_HARASSMENT", probability |-> "NEGLIGIBLE"],
       [category |-> "HARM_CATEGORY_HARASSMENT", probability |-> "High"]>>}

\* keyword arguments of the synthetic calls
ClassifierArgs ==
    [finish : FinishReasons,
     status : {0, 400, 429, 500},
     text : {<<>>, <<"internal", "error">>, <<"blocked">>},
     ratings : SyntheticRatings]

\* a request with an API key and metadata from metas, at its entry
RequestAtEntry(metas) ==
    /\ pc = "start"
    /\ api_key = TRUE
    /\ garment_metadata \in metas
    /\ category = "upper_body"
    /\ intimate_flag = FALSE
    /\ modesty_applied = FALSE
    /\ current_metadata = EmptyMeta
    /\ current_prompt = NoPrompt
    /\ attempt = 0
    /\ retry_info = <<>>
    /\ response = NoResponse
    /\ result = NoResult
    /\ sent = <<>>
    /\ vision_calls = 0
    /\ vision_outcome = "none"
    /\ rewrite_calls = 0
    /\ rewrite_outcome = "none"
    /\ rejections = 0
    /\ safety_finishes = 0
    /\ skipped = 0
    /\ timeouts_only = TRUE

\* a request is at its entry while the classifier is called from outside it
ClassifierInit ==
    /\ cls_args \in ClassifierArgs
    /\ cls_verdicts = <<>>
    /\ PrepIdle
    /\ NormalizerIdle
    /\ ObjectsIdle
    /\ LimiterIdle
    /\ RequestAtEntry({[EmptyMeta EXCEPT !.description = <<"tshirt">>],
                       [EmptyMeta EXCEPT !.description = <<"lingerie">>]})

\* mutant: the verdict also looks at the audit trail of the request
Classify_ReadsTrail ==
    /\ Len(cls_verdicts) < MaxCalls
    /\ cls_verdicts' = Append(cls_verdicts,
                              \/ retry_info # <<>>
                              \/ is_content_rejection(cls_args.finish, cls_args.status,
                                                      cls_args.text, cls_args.ratings))
    /\ UNCHANGED <<cls_args, request, prep, normalizer, objects, limiter>>

\* one call of is_content_rejection with the keyword arguments cls_args
Classify ==
    /\ Len(cls_verdicts) < MaxCalls
    /\ cls_verdicts' = Append(cls_verdicts,
                              is_content_rejection(cls_args.finish, cls_args.status,
                                                   cls_args.text, cls_args.ratings))
    /\ UNCHANGED <<cls_args, request, prep, normalizer, objects, limiter>>

\* the classifier is called while a request starts: the request may run its
\* pre-flight between two calls
ClassifierNext ==
    \/ Classify
    \/ Start

ClassifierSpec == ClassifierInit /\ [][ClassifierNext]_vars

\* ------------------------------------------------------------------------
\* The images of a request: collection, limit of five, payload budget
\* ------------------------------------------------------------------------

Max(a, b) == IF a >= b THEN a ELSE b

\* int(x * 0.85), int(x * 0.9), int(x * 0.92) for the dimensions of the
\* model (equal to the float computation for every x below 5000)
Scale(x, percent) == (x * percent) \div 100

\* mutant: the lists are passed on whole
Limit_None(n) == n

\* len(files[:5])
Limit(n) == IF n > 5 THEN 5 ELSE n

\* total_bytes of build_encoded_images: the encoders decide it, so any of
\* these may come back (under, exactly at, just over, far over the ceiling)
EncodedTotals == {6000000, 12582912, 12582913, 40000000}

\* mutant: the loop never sees the payload as within budget
OverBudget_Always(total) == TRUE

\* total_image_bytes > max_total_image_bytes
OverBudget(total) == total > max_total_image_bytes

\* mutant: the targets shrink without a floor
Tighten_NoFloor(k) ==
    [k EXCEPT !.other_user_dim = Scale(@, 85),
              !.other_garment_dim = Scale(@, 85),
              !.other_user_q = @ - 4,
              !.other_garment_q = @ - 4,
              !.first_garment_dim = Scale(@, 90),
              !.first_garment_q = @ - 3,
              !.main_user_dim = Scale(@, 92),
              !.main_user_q = @ - 2]

\* one tightening of the dimension and quality targets
Tighten(k) ==
    [k EXCEPT !.other_user_dim = Max(900, Scale(@, 85)),
              !.other_garment_dim = Max(850, Scale(@, 85)),
              !.other_user_q = Max(70, @ - 4),
              !.other_garment_q = Max(68, @ - 4),
              !.first_garment_dim = Max(1000, Scale(@, 90)),
              !.first_garment_q = Max(72, @ - 3),
              !.main_user_dim = Max(min_main_user_dim, Scale(@, 92)),
              !.main_user_q = Max(min_main_user_jpeg_quality, @ - 2)]

\* images arrive at POST /api/try-on, or generate_try_on is called with
\* lists of images; kept_user and kept_clothing are the lengths of the two
\* lists as currently held
PrepInit ==
    /\ entry \in {"endpoint", "direct"}
    /\ n_user_images \in (IF entry = "endpoint" THEN 0 ELSE 1)..MaxImages
    /\ n_clothing_images \in (IF entry = "endpoint" THEN 0 ELSE 1)..MaxImages
    /\ prep_pc = IF entry = "endpoint" THEN "received" ELSE "called"
    /\ prep_status = 0
    /\ kept_user = n_user_images
    /\ kept_clothing = n_clothing_images
    /\ knobs = InitialKnobs
    /\ total_image_bytes = 0
    /\ budget_i = 0
    /\ reencodes = 0
    /\ ClassifierIdle
    /\ NormalizerIdle
    /\ ObjectsIdle
    /\ LimiterIdle
    /\ RequestAtEntry({[EmptyMeta EXCEPT !.description = <<"tshirt">>]})

\* the try_on handler collects the uploaded images, rejects a request
\* without a subject image or without a garment image, and cuts each list
\* to five (it then calls analyze_user_attributes and generate_try_on)
CollectImages ==
    /\ prep_pc = "received"
    /\ IF kept_user = 0
       THEN /\ prep_pc' = "rejected"
            /\ prep_status' = 400
            /\ UNCHANGED <<kept_user, kept_clothing>>
       ELSE IF kept_clothing = 0
       THEN /\ prep_pc' = "rejected"
            /\ prep_status' = 422
            /\ UNCHANGED <<kept_user, kept_clothing>>
       ELSE /\ prep_pc' = "called"
            /\ kept_user' = Limit(kept_user)
            /\ kept_clothing' = Limit(kept_clothing)
            /\ UNCHANGED prep_status
    /\ UNCHANGED <<entry, n_user_images, n_clothing_images, knobs, total_image_bytes,
                   budget_i, reencodes, request, classifier, normalizer, objects, limiter>>

\* _generate_with_gemini reads the images, limits each list to five and
\* encodes them with the initial targets
EncodeImages ==
    /\ prep_pc = "called"
    /\ kept_user' = Limit(kept_user)
    /\ kept_clothing' = Limit(kept_clothing)
    /\ knobs' = InitialKnobs
    /\ total_image_bytes' \in EncodedTotals
    /\ budget_i' = 0
    /\ prep_pc' = "budget"
    /\ UNCHANGED <<entry, n_user_images, n_clothing_images, prep_status, reencodes,
                   request, classifier, normalizer, objects, limiter>>

\* one iteration of `for _i in range(max_iters)` that does not break
BudgetIter ==
    /\ prep_pc = "budget"
    /\ budget_i < max_iters
    /\ OverBudget(total_image_bytes)
    /\ knobs' = Tighten(knobs)
    /\ total_image_bytes' \in EncodedTotals
    /\ budget_i' = budget_i + 1
    /\ reencodes' = reencodes + 1
    /\ UNCHANGED <<entry, n_user_images, n_clothing_images, prep_pc, prep_status,
                   kept_user, kept_clothing, request, classifier, normalizer, objects, limiter>>

\* the loop ends, by `break` or because the range is exhausted, and the
\* function goes on to generation with the encoding it holds
BudgetDone ==
    /\ prep_pc = "budget"
    /\ budget_i = max_iters \/ ~OverBudget(total_image_bytes)
    /\ prep_pc' = "generate"
    /\ UNCHANGED <<entry, n_user_images, n_clothing_images, prep_status, kept_user,
                   kept_clothing, knobs, total_image_bytes, budget_i, reencodes,
                   request, classifier, normalizer, objects, limiter>>

PrepNext ==
    \/ CollectImages
    \/ EncodeImages
    \/ BudgetIter
    \/ BudgetDone

\* the handler and the loop are straight-line code: each step that can be
\* taken is taken
PrepSpec == PrepInit /\ [][PrepNext]_vars /\ WF_vars(PrepNext)

\* ------------------------------------------------------------------------
\* A request with several images, from the end of the payload budget guard
\* ------------------------------------------------------------------------

\* the budget guard has finished on one or two subject images and two
\* garment images, at once or after one tightening of the targets, and the
\* request is about to run its sensitivity check
AttemptsInit ==
    /\ entry = "direct"
    /\ n_user_images \in 1..2
    /\ n_clothing_images = 2
    /\ prep_pc = "generate"
    /\ prep_status = 0
    /\ kept_user = n_user_images
    /\ kept_clothing = n_clothing_images
    /\ total_image_bytes = 6000000
    /\ budget_i \in 0..1
    /\ reencodes = budget_i
    /\ knobs = IF budget_i = 0 THEN InitialKnobs ELSE Tighten(InitialKnobs)
    /\ ClassifierIdle
    /\ NormalizerIdle
    /\ ObjectsIdle
    /\ LimiterIdle
    /\ RequestAtEntry({[EmptyMeta EXCEPT !.description = <<"tshirt">>]})

AttemptsSpec == AttemptsInit /\ [][Next]_vars

\* a request for a plain garment, for an intimate one, or with metadata the
\* prompt cannot be built from, when the coroutine is scheduled whenever it
\* can run and every awaited call returns, fails or times out
LiveInit ==
    /\ ClassifierIdle
    /\ PrepIdle
    /\ NormalizerIdle
    /\ ObjectsIdle
    /\ LimiterIdle
    /\ RequestAtEntry({[EmptyMeta EXCEPT !.description = <<"tshirt">>],
                       [EmptyMeta EXCEPT !.description = <<"lingerie">>],
                       [EmptyMeta EXCEPT !.description = <<"tshirt">>, !.items_index = "inf"]})

LiveSpec == LiveInit /\ [][Next]_vars /\ WF_vars(Next)

\* ------------------------------------------------------------------------
\* normalize_image_bytes_with_budget
\* ------------------------------------------------------------------------

\* int(round(a / b)): Python rounds a half to the even neighbour
RoundDiv(a, b) ==
    LET q == a \div b
        r == a % b
    IN  IF 2 * r < b THEN q
        ELSE IF 2 * r > b THEN q + 1
        ELSE IF q % 2 = 0 THEN q ELSE q + 1

\* the (width, height) normalize_image_bytes returns for a w x h image:
\* the longest side is brought down to max_dimension, the aspect ratio kept
NormalizedSize(w, h, max_dimension) ==
    LET longest == Max(w, h)
    IN  IF longest # 0 /\ longest > max_dimension
        THEN [w |-> Max(1, RoundDiv(w * max_dimension, longest)),
              h |-> Max(1, RoundDiv(h * max_dimension, longest))]
        ELSE [w |-> w, h |-> h]

\* len(out_bytes) of one encoding: the encoder decides it (under, exactly
\* at, just over the budget of the calls below)
EncodedSizes == {100000, 250000, 250001}

\* the calls studied: image size and keyword arguments
NormalizeArgs ==
    {[w |-> img[1], h |-> img[2], max_bytes |-> mb, max_dimension |-> mx, min_dimension |-> mn,
      jpeg_quality |-> 88, min_jpeg_quality |-> mq] :
        img \in {<<5000, 3500>>, <<1000, 3000>>, <<800, 600>>},
        mb \in {0, 250000},
        mx \in {2200, 1000},
        mn \in {600, 900, 2400},
        mq \in {70, 65}}

NormalizeInit ==
    /\ nb_args \in NormalizeArgs
    /\ nb_pc = "called"
    /\ nb_dim = 0
    /\ nb_q = 0
    /\ nb_iter = 0
    /\ nb_encodings = <<>>
    /\ nb_tried = <<>>
    /\ nb_out = NoEncoding
    /\ ClassifierIdle
    /\ PrepIdle
    /\ ObjectsIdle
    /\ LimiterIdle
    /\ RequestAtEntry({[EmptyMeta EXCEPT !.description = <<"tshirt">>]})

\* entry of normalize_image_bytes_with_budget up to the loop
NormalizeStart ==
    /\ nb_pc = "called"
    /\ IF nb_args.max_bytes <= 0
       THEN /\ nb_pc' = "raised"
            /\ UNCHANGED <<nb_dim, nb_q>>
       ELSE /\ nb_pc' = "loop"
            /\ nb_dim' = nb_args.max_dimension
            /\ nb_q' = nb_args.jpeg_quality
    /\ UNCHANGED <<nb_args, nb_iter, nb_encodings, nb_tried, nb_out, request, classifier, prep, objects, limiter>>

\* one iteration of `for _ in range(8)`: encode, return if within budget,
\* else tighten and go on, break at the floors, or fall out of the loop
\* with the last encoding
NormalizeIter ==
    /\ nb_pc = "loop"
    /\ nb_iter < 8
    /\ \E size \in EncodedSizes :
          LET dims == NormalizedSize(nb_args.w, nb_args.h, nb_dim)
              enc == [bytes |-> size, w |-> dims.w, h |-> dims.h]
              dim == Max(nb_args.min_dimension, Scale(nb_dim, 85))
              q == Max(nb_args.min_jpeg_quality, nb_q - 6)
          IN  /\ nb_encodings' = Append(nb_encodings, enc)
              /\ nb_tried' = Append(nb_tried, <<nb_dim, nb_q>>)
              /\ nb_iter' = nb_iter + 1
              /\ IF size <= nb_args.max_bytes
                 THEN /\ nb_pc' = "returned"
                      /\ nb_out' = enc
                      /\ UNCHANGED <<nb_dim, nb_q>>
                 ELSE /\ nb_dim' = dim
                      /\ nb_q' = q
                      /\ IF (dim = nb_args.min_dimension /\ q = nb_args.min_jpeg_quality)
                            \/ nb_iter + 1 = 8
                         THEN /\ nb_pc' = "returned"
                              /\ nb_out' = enc
                         ELSE /\ nb_pc' = "loop"
                              /\ UNCHANGED nb_out
    /\ UNCHANGED <<nb_args, request, classifier, prep, objects, limiter>>

NormalizeNext ==
    \/ NormalizeStart
    \/ NormalizeIter

NormalizeSpec == NormalizeInit /\ [][NormalizeNext]_vars

\* ------------------------------------------------------------------------
\* The metadata objects of a request: which calls create an object, which
\* hand back a reference to one that exists
\* ------------------------------------------------------------------------

\* replies of the text-rewrite API that rewrite_for_modesty_gemini accepts
AcceptedReplies == {reply \in RewriteReplies : reply.kind = "ok"}

\* descriptions with a word whose replacement contains a replaced word
SheerDescriptions == {<<"sheer", "blouse">>, <<"see-through", "top">>, <<"transparent", "raincoat">>}

\* generate_try_on is entered with the caller's object as garment_metadata
ObjectsInit ==
    /\ RequestAtEntry(CallerMetas \cup {[EmptyMeta EXCEPT !.description = d] : d \in SheerDescriptions})
    /\ LimiterIdle
    /\ heap = <<garment_metadata>>
    /\ current_ref = 0
    /\ new_meta_ref = 0
    /\ ClassifierIdle
    /\ PrepIdle
    /\ NormalizerIdle

\* current_metadata = copy.deepcopy(garment_metadata)
CopyCaller ==
    /\ current_ref = 0
    /\ heap' = Append(heap, heap[1])
    /\ current_ref' = Len(heap')
    /\ UNCHANGED <<new_meta_ref, request, classifier, prep, normalizer, limiter>>

\* current_metadata = apply_modesty_contract(current_metadata): the
\* contract is written into a deep copy of the argument
ContractObject ==
    /\ current_ref # 0
    /\ new_meta_ref = 0
    /\ Len(heap) < MaxObjects
    /\ heap' = Append(heap, apply_modesty_contract(heap[current_ref]))
    /\ current_ref' = Len(heap')
    /\ UNCHANGED <<new_meta_ref, request, classifier, prep, normalizer, limiter>>

\* mutant: the heuristic rewrite sanitizes the object it was given, then
\* copies it
HeuristicObject_InPlace(h, ref) ==
    Append([h EXCEPT ![ref] = HeuristicMeta(h[ref])], HeuristicMeta(h[ref]))

\* the heap after rewrite_for_modesty_heuristic(h[ref], ...): the argument
\* is deep-copied and the copy rebuilt by sanitize_value
HeuristicObject(h, ref) == Append(h, HeuristicMeta(h[ref]))

\* safe_meta, ... = rewrite_for_modesty_heuristic(current_metadata, ...);
\* current_metadata = safe_meta
HeuristicRewrite ==
    /\ current_ref # 0
    /\ new_meta_ref = 0
    /\ Len(heap) < MaxObjects
    /\ heap' = HeuristicObject(heap, current_ref)
    /\ current_ref' = Len(heap')
    /\ UNCHANGED <<new_meta_ref, request, classifier, prep, normalizer, limiter>>

\* new_meta of rewrite_for_modesty_gemini(metadata=current_metadata, ...):
\* the object parsed from the reply, or the argument itself when the reply
\* has no usable metadata
GeminiReturns(reply) ==
    /\ current_ref # 0
    /\ new_meta_ref = 0
    /\ Len(heap) + 1 < MaxObjects
    /\ IF reply.meta = "missing"
       THEN /\ new_meta_ref' = current_ref
            /\ UNCHANGED heap
       ELSE /\ heap' = Append(heap, ReplyMeta(reply, heap[current_ref]))
            /\ new_meta_ref' = Len(heap')
    /\ UNCHANGED <<current_ref, request, classifier, prep, normalizer, limiter>>

\* sanitized_meta, ... = rewrite_for_modesty_heuristic(new_meta, ...);
\* current_metadata = sanitized_meta
SanitizeNewMeta ==
    /\ new_meta_ref # 0
    /\ heap' = HeuristicObject(heap, new_meta_ref)
    /\ current_ref' = Len(heap')
    /\ new_meta_ref' = 0
    /\ UNCHANGED <<request, classifier, prep, normalizer, limiter>>

ObjectsNext ==
    \/ CopyCaller
    \/ ContractObject
    \/ HeuristicRewrite
    \/ \E reply \in AcceptedReplies : GeminiReturns(reply)
    \/ SanitizeNewMeta

ObjectsSpec == ObjectsInit /\ [][ObjectsNext]_vars

\* ------------------------------------------------------------------------
\* The in-memory rate limiter (main.py)
\* ------------------------------------------------------------------------

\* keys of the form f"try-on:{ip}"
RateKeys == {"try-on:10.0.0.1", "try-on:10.0.0.2"}

\* limit arguments studied (the endpoint passes 10)
RateLimits == {0, 1, 2}

\* window_seconds arguments studied (the endpoint passes 60)
RateWindows == {2, 3}

\* _rate_buckets.get(key, (0, 0.0))
BucketGet(buckets, key) ==
    IF key \in DOMAIN buckets THEN buckets[key] ELSE <<0, 0>>

\* _rate_buckets[key] = value
BucketSet(buckets, key, value) ==
    [k \in (DOMAIN buckets) \cup {key} |-> IF k = key THEN value ELSE buckets[k]]

\* mutant: a bucket is full only once the counter has passed the limit
RateAllowed_OffByOne(buckets, key, limit, now) ==
    LET count == BucketGet(buckets, key)[1]
        expires_at == BucketGet(buckets, key)[2]
    IN  IF expires_at <= now THEN TRUE
        ELSE IF count > limit THEN FALSE
        ELSE TRUE

\* the value check_rate_limit(key, limit, window_seconds) returns when
\* time.time() reads now
RateAllowed(buckets, key, limit, now) ==
    LET count == BucketGet(buckets, key)[1]
        expires_at == BucketGet(buckets, key)[2]
    IN  IF expires_at <= now THEN TRUE
        ELSE IF count >= limit THEN FALSE
        ELSE TRUE

\* _rate_buckets after that call
RateBuckets(buckets, key, limit, window_seconds, now) ==
    LET count == BucketGet(buckets, key)[1]
        expires_at == BucketGet(buckets, key)[2]
    IN  IF expires_at <= now THEN BucketSet(buckets, key, <<1, now + window_seconds>>)
        ELSE IF ~RateAllowed(buckets, key, limit, now) THEN buckets
        ELSE BucketSet(buckets, key, <<count + 1, expires_at>>)

\* the API process has started: no bucket exists, and every call of the
\* endpoint will pass the same limit and window
LimiterInit ==
    /\ rate_buckets = <<>>
    /\ rate_limit \in RateLimits
    /\ rate_window \in RateWindows
    /\ rate_clock = 0
    /\ rate_log = <<>>
    /\ ClassifierIdle
    /\ PrepIdle
    /\ NormalizerIdle
    /\ ObjectsIdle
    /\ RequestAtEntry({[EmptyMeta EXCEPT !.description = <<"tshirt">>]})

\* try_on calls check_rate_limit(key, limit, window_seconds); the clock
\* has not gone back since the call before
check_rate_limit(key) ==
    /\ Len(rate_log) < MaxRateCalls
    /\ \E now \in rate_clock..MaxTime :
          /\ rate_clock' = now
          /\ rate_buckets' = RateBuckets(rate_buckets, key, rate_limit, rate_window, now)
          /\ rate_log' = Append(rate_log,
                                [key |-> key, now |-> now,
                                 allowed |-> RateAllowed(rate_buckets, key, rate_limit, now),
                                 expires_at |-> BucketGet(rate_buckets', key)[2]])
    /\ UNCHANGED <<rate_limit, rate_window, request, classifier, prep, normalizer, objects>>

LimiterNext == \E key \in RateKeys : check_rate_limit(key)

LimiterSpec == LimiterInit /\ [][LimiterNext]_vars

\* ------------------------------------------------------------------------
\* Type invariant
\* ------------------------------------------------------------------------

TypeOK ==
    /\ pc \in {"start", "vision", "attempt", "image", "rewrite", "success", "raised"}
    /\ attempt \in 0..max_attempts
    /\ Len(sent) \in 0..max_attempts
    /\ modesty_applied \in BOOLEAN

\* ------------------------------------------------------------------------
\* Properties
\* ------------------------------------------------------------------------

\* records appended by a failure-then-rewrite transition carry attempt >= 2,
\* pre-flight records carry attempt 1
FailureRecords(trail) == {i \in DOMAIN trail : trail[i].attempt >= 2}

PreflightRecords(trail) == {i \in DOMAIN trail : trail[i].attempt = 1}

PreflightStrategies == {"intimate_vision_detect", "modesty_contract_preflight", "preflight_heuristic"}

CountStrategy(trail, strategy) == Cardinality({i \in DOMAIN trail : trail[i].strategy = strategy})

\* C1: at most max_attempts = 4 image-generation requests are issued in any
\* execution, and none is issued once an attempt has produced a Success.
C1_AttemptBudget ==
    /\ [](Len(sent) <= 4)
    /\ [][(result.type = "success") => (sent' = sent)]_vars

\* four requests were issued and the fourth succeeded
C1_Witness == Len(sent) = 4 /\ result.type = "success"

\* C2 as stated: a Success is returned only for a candidate that reports the
\* finish reason "STOP" and carries a non-empty inline image.
C2_Original ==
    (result.type = "success") =>
        (response.finish = "STOP" /\ response.image \in {"inline_data", "inlineData"})

\* C2 amended: a Success is returned only for a successful HTTP response
\* whose first candidate reports "STOP" or reports no finish reason at all
\* (key absent or empty) and carries a non-empty inline image under either
\* key casing; no other outcome produces a Success.
C2_SuccessNeedsImageAndNormalFinish ==
    (result.type = "success") =>
        /\ response.kind = "response"
        /\ response.is_success
        /\ response.has_candidates
        /\ response.finish \in {"STOP", "NONE", ""}
        /\ response.image \in {"inline_data", "inlineData"}

\* a Success from a "STOP" candidate with a camelCase image part
C2_Witness ==
    result.type = "success" /\ response.finish = "STOP" /\ response.image = "inlineData"

\* C3 as stated: when every attempt is classified as a content rejection,
\* exactly max_attempts calls are made and the failure comes with
\* max_attempts - 1 records.
C3_Original ==
    (pc = "raised" /\ rejections = max_attempts) =>
        (Len(sent) = max_attempts /\ Len(retry_info) = max_attempts - 1)

\* C3 amended: when every attempt is classified as a content rejection,
\* exactly max_attempts image-generation requests are issued and the error
\* is raised with an audit trail that holds the pre-flight records (none, 2
\* or 3 of them) followed by one record per rejected attempt
\* 1..max_attempts-1 whose rewrite ran, i.e. max_attempts - 1 records less
\* the rewrites abandoned because rebuilding the base prompt raised.
C3_BudgetOnAllRejected ==
    (pc = "raised" /\ rejections = max_attempts) =>
        /\ Len(sent) = max_attempts
        /\ Cardinality(FailureRecords(retry_info)) = max_attempts - 1 - skipped
        /\ Cardinality(PreflightRecords(retry_info)) \in {0, 2, 3}
        /\ \A i \in PreflightRecords(retry_info), j \in FailureRecords(retry_info) : i < j

\* four rejections on a sensitive request: two pre-flight records and three
\* failure records
C3_Witness ==
    /\ pc = "raised"
    /\ rejections = max_attempts
    /\ Cardinality(FailureRecords(retry_info)) = 3
    /\ Len(retry_info) = 5

\* C4 as stated: the record appended after a content rejection of attempt n
\* has a strategy fixed by n (n = 1 heuristic; n = 2 LLM-assisted rewrite or
\* its heuristic fallback, moderate; n = 3 the same at max strictness).
C4_Original ==
    \A i \in FailureRecords(retry_info) :
        LET rec == retry_info[i]
        IN  CASE rec.attempt = 2 -> rec.strategy = "heuristic"
              [] rec.attempt = 3 -> /\ rec.strategy \in {"gemini_rewrite", "heuristic"}
                                    /\ rec.modificationsSummary = "moderate"
              [] rec.attempt = 4 -> /\ rec.strategy \in {"gemini_rewrite", "heuristic"}
                                    /\ rec.modificationsSummary = "max"
              [] OTHER -> FALSE

\* the ladder of the http-error and candidate branches for the record
\* appended after attempt n
LadderRecord(rec, n) ==
    CASE n = 1 -> /\ rec.strategy = "heuristic"
                  /\ rec.reason = "content_rejection"
                  /\ rec.modificationsSummary = "moderate"
      [] n \in {2, 3} ->
                  /\ \/ rec.strategy = "gemini_rewrite" /\ rec.reason = "content_rejection"
                     \/ rec.strategy = "heuristic" /\ rec.reason = "gemini_rewrite_failed_fallback"
                  /\ rec.modificationsSummary = (IF n = 3 THEN "max" ELSE "moderate")
      [] OTHER -> FALSE

\* C4 amended: when attempt n fails with a content rejection carried by an
\* HTTP error or by a candidate and attempts remain, the record has a
\* strategy fixed by n (n = 1 heuristic; n = 2 LLM-assisted rewrite at
\* moderate strictness or its heuristic fallback; n = 3 the same at max
\* strictness); a rejection recognised on a response without candidates
\* always gives the heuristic rewrite at moderate strictness, whatever n.
C4_StrategyLadder ==
    \A i \in FailureRecords(retry_info) :
        LET rec == retry_info[i]
        IN  IF rec.reason = "no_candidates"
            THEN rec.strategy = "heuristic" /\ rec.modificationsSummary = "moderate"
            ELSE LadderRecord(rec, rec.attempt - 1)

\* a no-candidates rejection of attempt 2 followed by an LLM-assisted
\* rewrite after attempt 3
C4_Witness ==
    \E i, j \in DOMAIN retry_info :
        /\ retry_info[i].attempt = 3 /\ retry_info[i].reason = "no_candidates"
        /\ retry_info[j].attempt = 4 /\ retry_info[j].strategy = "gemini_rewrite"

\* C5: if the caller's metadata contains wearing_instructions, the metadata
\* the next attempt is built from still contains a non-empty
\* wearing_instructions after any number of rewrite passes.
C5_DirectivesKept ==
    (garment_metadata.has_wi /\ pc \in {"attempt", "image"}) =>
        (current_metadata.has_wi /\ current_metadata.wearing_instructions # <<>>)

\* C6: when the LLM-assisted rewrite fails after a rejection of attempt n
\* (disabled, HTTP error, timeout, no candidates, empty text, unparseable or
\* non-object JSON), the heuristic rewrite runs at the strictness of n,
\* exactly one record with strategy "heuristic" and the fallback reason is
\* appended, and the loop goes on to attempt n + 1.
C6_RewriterFailureFallsBack ==
    [][(pc \in {"image", "rewrite"} /\ rewrite_outcome' \in RewriteFailures \cup {"disabled"}) =>
        /\ attempt \in {2, 3}
        /\ pc' = "attempt"
        /\ attempt' = attempt + 1
        /\ current_metadata' = HeuristicMeta(current_metadata)
        /\ current_prompt' = HeuristicPrompt(current_prompt, IF attempt = 3 THEN "max" ELSE "moderate")
        /\ retry_info' = Append(retry_info,
                                Record(attempt + 1, "heuristic", "gemini_rewrite_failed_fallback",
                                       IF attempt = 3 THEN "max" ELSE "moderate"))]_vars

\* the rewrite call after attempt 3 timed out and attempt 4 is about to start
C6_Witness == pc = "attempt" /\ attempt = 4 /\ rewrite_outcome = "timeout"

\* C7: with an API key configured, an error reaches the caller only once
\* max_attempts image-generation attempts have been made.
C7_RaisesOnlyOnExhaustion ==
    (api_key /\ pc = "raised") => Len(sent) = max_attempts

\* C8: a request classified as sensitive (metadata check or vision check)
\* has the modesty contract applied before the first image-generation
\* request is built, so that request's prompt has the contract clause; the
\* contract pipeline runs at most once and never after an attempt.
C8_ModestyBeforeFirstAttempt ==
    /\ []((Len(sent) >= 1 /\ (intimate_flag \/ is_intimate_request(garment_metadata, category))) =>
            /\ modesty_applied
            /\ sent[1].metadata.modesty_contract
            /\ sent[1].prompt.clause # <<>>
            /\ Head(sent[1].prompt.clause) = "modesty_contract_mandatory")
    /\ [](CountStrategy(retry_info, "modesty_contract_preflight") <= 1)
    /\ [][(attempt >= 1) =>
            /\ modesty_applied' = modesty_applied
            /\ CountStrategy(retry_info', "modesty_contract_preflight")
                 = CountStrategy(retry_info, "modesty_contract_preflight")]_vars

\* a request the vision check classified, after its first attempt was rejected
C8_Witness ==
    /\ intimate_flag
    /\ ~is_intimate_request(garment_metadata, category)
    /\ Len(sent) >= 2
    /\ rejections >= 1

\* the scenario of C9: "lingerie" in the metadata, three safety finish
\* reasons, then a Success on the fourth attempt
Scenario9 ==
    /\ ContainsAny(garment_metadata.description, {"lingerie"})
    /\ result.type = "success"
    /\ result.attempt = 4
    /\ safety_finishes = 3

\* C9 as stated: the scenario ends in a Success with modesty_applied, three
\* records, the first of them "heuristic".
C9_Original ==
    Scenario9 => (modesty_applied /\ Len(retry_info) = 3 /\ retry_info[1].strategy = "heuristic")

\* C9 amended: the scenario ends in a Success with modesty_applied == True
\* and five records: the two pre-flight records ("modesty_contract_preflight",
\* "preflight_heuristic") and three failure records, the first of which has
\* strategy "heuristic".
C9_SafetyBlockThenRecovery ==
    Scenario9 =>
        /\ modesty_applied
        /\ Len(retry_info) = 5
        /\ retry_info[1].strategy = "modesty_contract_preflight"
        /\ retry_info[2].strategy = "preflight_heuristic"
        /\ retry_info[3].strategy = "heuristic" /\ retry_info[3].attempt = 2
        /\ \A i \in {4, 5} : retry_info[i].strategy \in {"gemini_rewrite", "heuristic"}
                             /\ retry_info[i].attempt = i - 1

\* the scenario with an LLM-assisted rewrite after the second block
C9_Witness == Scenario9 /\ Len(retry_info) >= 4 /\ retry_info[4].strategy = "gemini_rewrite"

\* C10 as stated: no record exists before the first attempt, and a request
\* that succeeds on attempt 1 returns an empty audit trail.
C10_Original ==
    /\ (Len(sent) = 0 => retry_info = <<>>)
    /\ ((result.type = "success" /\ result.attempt = 1) => retry_info = <<>>)

\* C10 amended: a record is appended only by the pre-flight of a request
\* classified as sensitive (before the first attempt, with attempt number 1)
\* or on a failure-then-rewrite transition (one record, after an outcome
\* classified as rejection, with attempts remaining); none for a transient
\* failure and none for the successful attempt; a request not classified as
\* sensitive that succeeds on attempt 1 returns attempt_records == [].
C10_RecordsOnlyOnRewrite ==
    /\ [][(retry_info' # retry_info) =>
            \/ /\ pc \in {"start", "vision"}
               /\ intimate_flag'
               /\ \A i \in DOMAIN retry_info' :
                     /\ retry_info'[i].attempt = 1
                     /\ retry_info'[i].strategy \in PreflightStrategies
            \/ /\ pc \in {"image", "rewrite"}
               /\ ShouldRewrite(response')
               /\ attempt < max_attempts
               /\ pc' = "attempt"
               /\ Len(retry_info') = Len(retry_info) + 1
               /\ SubSeq(retry_info', 1, Len(retry_info)) = retry_info
               /\ retry_info'[Len(retry_info')].attempt = attempt + 1
               /\ retry_info'[Len(retry_info')].strategy \in {"heuristic", "gemini_rewrite"}]_vars
    /\ []((result.type = "success" /\ result.attempt = 1 /\ ~intimate_flag) => retry_info = <<>>)

\* a clean success: not sensitive, first attempt succeeds, empty trail
C10_Witness ==
    /\ result.type = "success"
    /\ result.attempt = 1
    /\ ~intimate_flag
    /\ retry_info = <<>>

\* C11: when all 4 image-generation attempts return a candidate with a
\* safety finish reason, generate_try_on raises the exhaustion error of the
\* candidate branch; its message carries the literal finish-reason token of
\* the last attempt and the safety hint.
C11_ExhaustionMessage ==
    (pc = "raised" /\ safety_finishes = max_attempts) =>
        /\ Len(sent) = max_attempts
        /\ result.error_kind = "no_image_or_finish_reason"
        /\ result.finish = response.finish
        /\ result.finish \in {"IMAGE_SAFETY", "SAFETY", "CONTENT_FILTER", "PROHIBITED_CONTENT"}
        /\ result.hint

\* four safety finish reasons in a row and the error raised with the hint
C11_Witness ==
    pc = "raised" /\ safety_finishes = 4 /\ result.finish = "IMAGE_SAFETY" /\ result.hint

\* C12 as stated: when every attempt times out, max_attempts attempts are
\* issued, the audit trail shows no strategy other than none/transient, no
\* rewrite was performed, and the error is the timeout error.
C12_Original ==
    (pc = "raised" /\ timeouts_only /\ Len(sent) >= 1) =>
        /\ Len(sent) = max_attempts
        /\ \A i \in DOMAIN retry_info : retry_info[i].strategy \in {"none", "transient"}
        /\ result.error_kind = "timeout"

\* C12 amended: when every attempt times out, max_attempts attempts are
\* issued, all with the prompt and metadata of attempt 1; no record is
\* appended after the pre-flight (the audit trail holds only the pre-flight
\* records of a sensitive request, none otherwise), the rewrite API is
\* never called, and the error raised is the timeout error.
C12_TransientOnlyFailure ==
    (timeouts_only /\ Len(sent) >= 1) =>
        /\ FailureRecords(retry_info) = {}
        /\ \A i \in DOMAIN retry_info : retry_info[i].strategy \in PreflightStrategies
        /\ (retry_info # <<>>) = intimate_flag
        /\ rewrite_calls = 0
        /\ \A i \in DOMAIN sent : /\ sent[i].prompt = sent[1].prompt
                                   /\ sent[i].metadata = sent[1].metadata
        /\ (pc = "raised" => /\ Len(sent) = max_attempts
                             /\ result.error_kind = "timeout")

\* four timeouts on a sensitive request: the trail holds the two pre-flight
\* records only
C12_Witness ==
    /\ pc = "raised"
    /\ timeouts_only
    /\ Len(sent) = max_attempts
    /\ result.error_kind = "timeout"
    /\ Len(retry_info) = 2

\* C13: every error raised on exhaustion of the attempt budget carries the
\* last known finish reason, and when the last failure was classified as a
\* content rejection (HTTP error, empty candidate list or candidate without
\* a usable image) it also carries the safety hint.
C13_ExhaustionErrorIsActionable ==
    (api_key /\ pc = "raised" /\ Len(sent) = max_attempts) =>
        /\ result.finish # ""
        /\ (ShouldRewrite(response) => result.hint)

\* C14: without an API credential generate_try_on raises the configuration
\* error at once: no vision, image-generation or rewrite request is issued,
\* no attempt is started and nothing is recorded or retried.
C14_NoCredentialFailsAtOnce ==
    (~api_key) =>
        /\ sent = <<>>
        /\ vision_calls = 0
        /\ rewrite_calls = 0
        /\ attempt = 0
        /\ retry_info = <<>>
        /\ pc \in {"start", "raised"}
        /\ (pc = "raised" => result.error_kind = "configuration")

\* the configuration error has been raised
C14_Witness == ~api_key /\ pc = "raised" /\ result.error_kind = "configuration"

\* C16: on success the caller of generate_try_on gets the image data URL,
\* retry_info and modesty_applied, and the POST /api/try-on response carries
\* modesty_applied == true whenever the modesty contract was applied.
C16_ResponseCarriesModesty ==
    (pc = "success") =>
        LET body == try_on_response(GenerateResult)
        IN  /\ DOMAIN GenerateResult = {"image_url", "retry_info", "modesty_applied"}
            /\ "image_url" \in DOMAIN body
            /\ "retry_info" \in DOMAIN body
            /\ (modesty_applied => ("modesty_applied" \in DOMAIN body /\ body.modesty_applied))

\* every spelling of the four safety finish reasons among the payloads
SafetySpellings ==
    {"IMAGE_SAFETY", "image_safety", "SAFETY", "Safety", " SAFETY ",
     "CONTENT_FILTER", "content_filter\n", "PROHIBITED_CONTENT"}

\* C17: is_content_rejection returns True whenever finish_reason, trimmed
\* and compared case-insensitively, is IMAGE_SAFETY, SAFETY, CONTENT_FILTER
\* or PROHIBITED_CONTENT, whatever the other arguments; and it returns
\* False for "STOP" with no HTTP status, error text or safety ratings.
C17_FinishReasonVerdict ==
    \A i \in DOMAIN cls_verdicts :
        /\ (cls_args.finish \in SafetySpellings) => cls_verdicts[i]
        /\ (cls_args = [finish |-> "STOP", status |-> 0, text |-> <<>>, ratings |-> <<>>])
              => ~cls_verdicts[i]

\* a lower-case safety finish reason next to a transient status and no
\* other signal was classified as a rejection
C17_Witness ==
    /\ cls_verdicts # <<>>
    /\ cls_args = [finish |-> "image_safety", status |-> 500, text |-> <<"internal", "error">>,
                   ratings |-> <<>>]
    /\ cls_verdicts[1]

C19_BudgetLoopTerminates ==
    /\ [](reencodes <= 6 /\ budget_i <= 6)
    /\ [][(reencodes' # reencodes) =>
            /\ total_image_bytes > 12582912
            /\ reencodes' = reencodes + 1]_vars
    /\ [][(prep_pc = "budget" /\ (total_image_bytes <= 12582912 \/ reencodes = 6)) =>
            /\ prep_pc' = "generate"
            /\ reencodes' = reencodes
            /\ total_image_bytes' = total_image_bytes
            /\ knobs' = knobs]_vars
    /\ ((prep_pc = "budget") ~> (prep_pc = "generate"))

\* six re-encodings, still over budget, and generation goes ahead
C19_Witness ==
    /\ prep_pc = "generate"
    /\ reencodes = 6
    /\ total_image_bytes > 12582912
    /\ knobs.other_user_dim = 900
    /\ knobs.main_user_dim = 1600

\* C20: normalize_image_bytes_with_budget returns an image whose width and
\* height do not exceed max_dimension, for every image and every
\* combination of max_dimension and min_dimension, and what it returns is
\* the first encoding whose size is <= max_bytes.
C20_WithinMaxDimension ==
    (nb_pc = "returned") =>
        /\ nb_out.w <= nb_args.max_dimension
        /\ nb_out.h <= nb_args.max_dimension
        /\ \A i \in DOMAIN nb_encodings :
              (nb_encodings[i].bytes <= nb_args.max_bytes) =>
                  (i = Len(nb_encodings) /\ nb_out = nb_encodings[i])

\* ------------------------------------------------------------------------
\* C21
\* ------------------------------------------------------------------------

\* this step handles a content rejection of an attempt that is not the last
RejectionHandled ==
    /\ pc = "image"
    /\ ShouldRewrite(response')
    /\ attempt < max_attempts

\* this step appends exactly one record, with these values
Appends(strategy, reason, summary) ==
    /\ Len(retry_info') = Len(retry_info) + 1
    /\ SubSeq(retry_info', 1, Len(retry_info)) = retry_info
    /\ retry_info'[Len(retry_info')] =
          [attempt |-> attempt + 1, strategy |-> strategy, reason |-> reason,
           modificationsSummary |-> summary]

\* this step runs the heuristic rewrite of the first rung, recorded with one
\* of these reasons
HeuristicRung(reasons) ==
    /\ pc' = "attempt"
    /\ \E reason \in reasons : Appends("heuristic", reason, "moderate")

\* this step starts the LLM-assisted rewrite at the strictness of the rung,
\* or, the rewriter being switched off, runs its heuristic fallback
AssistedRung(strictness) ==
    \/ pc' = "rewrite" /\ rewrite_calls' = rewrite_calls + 1 /\ retry_info' = retry_info
    \/ /\ pc' = "attempt"
       /\ rewrite_outcome' = "disabled"
       /\ Appends("heuristic", "gemini_rewrite_failed_fallback", strictness)

\* the rung of the ladder that attempt n selects
RungOf(n, reasons) ==
    CASE n = 1 -> HeuristicRung(reasons)
      [] n = 2 -> AssistedRung("moderate")
      [] OTHER -> AssistedRung("max")

\* C21 as stated: the strategy applied after a content rejection of attempt
\* n depends on n alone, whichever way the rejection arrived (failed HTTP
\* status, empty candidate list, candidate without a usable image).
C21_Original ==
    [][RejectionHandled => RungOf(attempt, {"content_rejection", "no_candidates"})]_vars

\* C21: the strategy applied after a content rejection of attempt n depends
\* on n and on the form of the rejection only, never on how many earlier
\* attempts failed: a failed HTTP status or a candidate without a usable
\* image selects the rung of n (1 heuristic, 2 assisted moderate, 3 assisted
\* max); an empty candidate list selects the moderate heuristic rewrite
\* from the base prompt for every n, recorded with reason "no_candidates",
\* or nothing at all when the base prompt cannot be rebuilt.
C21_StrategyByAttemptAndForm ==
    [][RejectionHandled =>
          IF Branch(response') = "no_candidates"
          THEN /\ pc' = "attempt"
               /\ rewrite_calls' = rewrite_calls
               /\ \/ Appends("heuristic", "no_candidates", "moderate")
                  \/ retry_info' = retry_info /\ skipped' = skipped + 1
          ELSE RungOf(attempt, {"content_rejection"})]_vars

\* attempt 1 failed without a rejection, attempt 2 was rejected with a
\* failed HTTP status, and the second rung (not the first) was selected
C21_Witness ==
    /\ pc = "rewrite"
    /\ attempt = 2
    /\ rejections = 1
    /\ Branch(response) = "http_error"
    /\ retry_info = <<>>

\* ------------------------------------------------------------------------
\* C22
\* ------------------------------------------------------------------------

\* words the heuristic pass replaces and never writes itself
ReplacedWords ==
    {"lingerie", "thong", "bra", "panties", "nude", "see-through", "sheer", "fishnet",
     "fetish", "bondage", "stripper", "provocative", "sexy", "seductive", "risque", "cleavage"}

\* the marks the heuristic pass leaves on a metadata object and on a text:
\* none of the replaced words, the five defaults present, the compliance
\* block appended
HeuristicPassed(meta, text) ==
    /\ ~ContainsAny(meta.description, ReplacedWords)
    /\ ~ContainsAny(meta.wearing_instructions, ReplacedWords)
    /\ \A k \in {"framing", "background", "camera", "pose", "content_policy"} : meta[k] # "absent"
    /\ ~ContainsAny(text, ReplacedWords)
    /\ \E i \in DOMAIN text : text[i] = "safety_compliance"

\* C22: whenever the LLM-assisted rewrite returns successfully, the
\* metadata and the prompt additions of the next attempt are what the
\* heuristic rewrite made of the LLM's output: they carry the marks of the
\* heuristic pass, right after the rewrite and in the request that is sent.
C22_LlmOutputPassesHeuristic ==
    /\ (pc = "attempt" /\ rewrite_outcome = "ok") =>
          HeuristicPassed(current_metadata, current_prompt.tail)
    /\ \A i \in DOMAIN sent :
          (\E k \in DOMAIN retry_info :
              retry_info[k].attempt = i /\ retry_info[k].strategy = "gemini_rewrite") =>
             HeuristicPassed(sent[i].metadata, sent[i].prompt.tail)

\* the LLM proposed "avoid sheer" and partial metadata; the request that
\* followed carries the sanitized additions and the defaults
C22_Witness ==
    \E i \in DOMAIN sent :
        /\ \E k \in DOMAIN retry_info :
              retry_info[k].attempt = i /\ retry_info[k].strategy = "gemini_rewrite"
        /\ sent[i].prompt.tail = <<"avoid", "semi", "transparent", "safety_compliance", "semi", "transparent">>
        /\ sent[i].metadata.description = <<"intimate", "apparel">>
        /\ sent[i].metadata.background = "neutral studio background"

\* ------------------------------------------------------------------------
\* C23
\* ------------------------------------------------------------------------

\* this step handles a failure of an attempt that is not the last and that
\* is not a content rejection
TransientHandled ==
    /\ pc = "image"
    /\ response' # NoResponse
    /\ Branch(response') # "success"
    /\ ~ShouldRewrite(response')
    /\ attempt < max_attempts

\* C23: a failure of attempt n < max_attempts that is not a content
\* rejection consumes one attempt and leaves the current metadata, the
\* current prompt and the audit trail as they were, and calls no rewriter;
\* the request of attempt n+1 then differs from that of attempt n by its
\* retry suffix only.
C23_TransientLeavesStateAlone ==
    [][/\ TransientHandled =>
             /\ pc' = "attempt"
             /\ attempt' = attempt + 1
             /\ current_metadata' = current_metadata
             /\ current_prompt' = current_prompt
             /\ retry_info' = retry_info
             /\ rewrite_calls' = rewrite_calls
       /\ (pc = "attempt" /\ sent' # sent /\ sent # <<>>
              /\ Branch(response) # "success" /\ ~ShouldRewrite(response)) =>
             LET prev == sent[Len(sent)]
                 new == sent'[Len(sent')]
             IN  /\ new.prompt = prev.prompt
                 /\ new.metadata = prev.metadata
                 /\ new.attempt = prev.attempt + 1
                 /\ new.suffix # prev.suffix]_vars

\* attempt 1 got a failed status without a rejection signal, attempt 2 a
\* candidate without image or signal, and attempt 3 went out with the
\* prompt of attempt 1 and an empty audit trail
C23_Witness ==
    /\ Len(sent) = 3
    /\ sent[3].prompt = sent[1].prompt
    /\ sent[3].metadata = sent[1].metadata
    /\ sent[3].suffix = "RETRY: increase coverage and opacity"
    /\ retry_info = <<>>
    /\ rejections = 0
    /\ ~timeouts_only

\* ------------------------------------------------------------------------
\* C24
\* ------------------------------------------------------------------------

\* C24: a successful HTTP response with no candidates is treated as
\* rejection-like (metadata and prompt rewritten, one record with reason
\* "no_candidates" appended) only if its body matches the keyword fallback
\* and attempts remain; otherwise the next attempt is issued without any
\* rewrite; on the last attempt the request fails.
C24_NoCandidates ==
    [][(pc = "image" /\ response' # NoResponse /\ Branch(response') = "no_candidates") =>
          /\ rewrite_calls' = rewrite_calls
          /\ IF attempt = max_attempts
             THEN /\ pc' = "raised"
                  /\ result'.error_kind = "no_candidates"
                  /\ UNCHANGED <<current_metadata, current_prompt, retry_info>>
             ELSE /\ pc' = "attempt"
                  /\ attempt' = attempt + 1
                  /\ \/ UNCHANGED <<current_metadata, current_prompt, retry_info>>
                     \/ /\ ContainsAny(response'.text, CONTENT_REJECTION_KEYWORDS)
                        /\ Appends("heuristic", "no_candidates", "moderate")
                        /\ current_prompt'.tail = <<"safety_compliance", "semi", "transparent">>
                        /\ current_metadata'.content_policy = "general_audience"]_vars

\* a response without candidates whose body reads "promptFeedback ...
\* blockReason" was answered by the heuristic rewrite; one without keyword
\* was not
C24_Witness ==
    /\ Len(retry_info) = 1
    /\ retry_info[1].reason = "no_candidates"
    /\ retry_info[1].attempt = 3
    /\ Len(sent) = 3
    /\ sent[3].prompt # sent[2].prompt
    /\ sent[2].prompt = sent[1].prompt
    /\ rejections = 1

\* ------------------------------------------------------------------------
\* C25
\* ------------------------------------------------------------------------

\* the entry has a category containing "sex" or "explicit", or a
\* probability that reads medium or high, in any letter case
SignallingEntry(r) ==
    \/ r.category \in {"HARM_CATEGORY_SEXUALLY_EXPLICIT", "harm_category_sexually_explicit",
                       "Explicit", "explicit", "sexual"}
    \/ r.probability \in {"MEDIUM", "medium", "HIGH", "High", "high"}

Answered == IF pc = "image" THEN Len(sent) - 1 ELSE Len(sent)

\* C26: the attempts of one request are strictly sequential: at most one
\* image-generation request is in flight; the request of attempt n+1 is
\* issued only after the outcome of attempt n has been received and
\* classified and the rewrite it called for, if any, has returned; the
\* requests go out in the order of their attempt numbers.
C26_AttemptsAreSequential ==
    /\ [](/\ \A i \in DOMAIN sent : sent[i].attempt = i
          /\ Answered \in {attempt - 1, attempt}
          /\ (pc = "image") => (attempt = Len(sent) /\ response = NoResponse)
          /\ (pc = "rewrite") => (attempt = Len(sent) /\ ShouldRewrite(response))
          /\ (pc = "attempt") => (attempt = Len(sent) + 1))
    /\ [][(sent' # sent) =>
            /\ pc = "attempt"
            /\ Len(sent') = Len(sent) + 1
            /\ SubSeq(sent', 1, Len(sent)) = sent
            /\ Answered = Len(sent)
            /\ sent # <<>> => (response # NoResponse /\ Branch(response) # "success")]_vars

\* the third request is in flight after two answered ones and one
\* completed rewrite call
C26_Witness ==
    /\ pc = "image"
    /\ Len(sent) = 3
    /\ Answered = 2
    /\ rewrite_calls = 1
    /\ Len(retry_info) = 2

\* ------------------------------------------------------------------------
\* C27
\* ------------------------------------------------------------------------

\* the image parts of a request
ImageParts(rq) == Tail(rq.parts)

\* C27: the images are encoded before the first attempt and never again:
\* no step of the request changes the encoded image set or encodes anew,
\* and every attempt sends one text part followed by the same image parts
\* in the same order (the subject images in their order, then the garment
\* images in theirs); between two attempts only the text part can differ.
C27_SameImagesEveryAttempt ==
    /\ [](\A n \in DOMAIN sent :
            LET p == sent[n].parts
            IN  /\ Len(p) = 1 + kept_user + kept_clothing
                /\ p[1].kind = "text"
                /\ p[1].text = <<sent[n].prompt, sent[n].suffix>>
                /\ \A j \in 1..kept_user :
                      /\ p[1 + j].kind = "inline_data"
                      /\ p[1 + j].data.role = "user"
                      /\ p[1 + j].data.index = j
                /\ \A j \in 1..kept_clothing :
                      /\ p[1 + kept_user + j].kind = "inline_data"
                      /\ p[1 + kept_user + j].data.role = "item"
                      /\ p[1 + kept_user + j].data.index = j
                /\ ImageParts(sent[n]) = ImageParts(sent[1]))
    /\ [][UNCHANGED <<kept_user, kept_clothing, knobs, total_image_bytes, reencodes>>]_vars

\* two subject images and two garment images, encoded twice under the
\* budget guard; three attempts with a rewrite between them: the text part
\* changed, the four image parts did not
C27_Witness ==
    /\ Len(sent) = 3
    /\ kept_user = 2
    /\ kept_clothing = 2
    /\ reencodes = 1
    /\ retry_info # <<>>
    /\ sent[3].parts[1] # sent[1].parts[1]
    /\ sent[3].prompt # sent[1].prompt
    /\ ImageParts(sent[3]) = ImageParts(sent[1])
    /\ Len(ImageParts(sent[3])) = 4

\* ------------------------------------------------------------------------
\* C28
\* ------------------------------------------------------------------------

\* this step runs the heuristic rewrite on the current metadata and records it
HeuristicRewritesCurrent ==
    /\ pc \in {"image", "rewrite"}
    /\ Len(retry_info') = Len(retry_info) + 1
    /\ retry_info'[Len(retry_info')].strategy = "heuristic"
    /\ rewrite_outcome' # "ok"

StringKeys ==
    {"framing", "background", "camera", "pose", "content_policy", "allow_underlayer",
     "coverage_preference", "opacity_preference", "avoid_closeups"}

\* the values the heuristic rewrite gives to the keys it finds absent
HeuristicDefaults ==
    [framing |-> "three_quarter",
     background |-> "neutral studio background",
     camera |-> "professional fashion editorial, neutral studio, avoid close-ups",
     pose |-> "neutral standing pose",
     content_policy |-> "general_audience"]

\* every key of before is a key of after; a key in keys that before lacks
\* holds its default in after; a key before holds keeps its value (none of
\* the model's values for these keys contains a word the sanitizer replaces)
KeysKept(before, after) ==
    /\ \A k \in StringKeys :
          IF before[k] # "absent" THEN after[k] = before[k]
          ELSE IF k \in DOMAIN HeuristicDefaults THEN after[k] = HeuristicDefaults[k]
          ELSE after[k] = "absent"
    /\ (before.description # <<>>) => (after.description # <<>>)
    /\ after.has_wi = before.has_wi
    /\ (before.wearing_instructions # <<>>) => (after.wearing_instructions # <<>>)
    /\ after.items_index = before.items_index
    /\ after.modesty_contract = before.modesty_contract
    /\ after.intimate_mode = before.intimate_mode

\* C28: the heuristic rewrite keeps every key of the metadata it is given
\* (values are sanitized, never deleted) and gives framing, background,
\* camera, pose and content_policy their defaults only where the key is
\* absent; a value the caller provided for one of them is never replaced.
C28_HeuristicKeepsKeys ==
    [][HeuristicRewritesCurrent => KeysKept(current_metadata, current_metadata')]_vars

\* the caller asked for full-body framing; after the heuristic rewrite
\* that follows a rejection of attempt 1 the framing is still the caller's
\* and the four other keys hold their defaults
C28_Witness ==
    /\ garment_metadata.framing = "full_body"
    /\ attempt = 2
    /\ Len(retry_info) = 1
    /\ retry_info[1].strategy = "heuristic"
    /\ current_metadata.framing = "full_body"
    /\ current_metadata.background = "neutral studio background"
    /\ current_metadata.content_policy = "general_audience"
    /\ current_metadata.description = <<"tshirt">>

\* ------------------------------------------------------------------------
\* C29
\* ------------------------------------------------------------------------

\* C29: metadata is never mutated in place: the caller's garment_metadata
\* object holds what the caller passed, whatever the request does, and
\* current_metadata never refers to it; no call changes an object that
\* exists (its input, or the snapshot an attempt was built from); the
\* heuristic rewrite, the LLM-assisted rewrite and the modesty contract
\* each leave current_metadata on an object created by that rewrite.
C29_NoInPlaceMutation ==
    /\ [](heap # <<>> =>
            /\ heap[1] = garment_metadata
            /\ current_ref # 1
            /\ new_meta_ref # 1)
    /\ [][\A o \in DOMAIN heap : o \in DOMAIN heap' /\ heap'[o] = heap[o]]_vars
    /\ [][(current_ref' # current_ref) => (current_ref' \notin DOMAIN heap)]_vars

\* the copy of the caller's object went through the contract and then to
\* the rewriter, whose reply had no metadata, so that new_meta is
\* current_metadata itself: three objects, the caller's as it was
C29_Witness ==
    /\ Len(heap) = 3
    /\ current_ref = 3
    /\ new_meta_ref = 3
    /\ heap[1] = garment_metadata
    /\ heap[2] = heap[1]
    /\ heap[3].modesty_contract /\ ~heap[1].modesty_contract
    /\ heap[3].framing = "three_quarter"
    /\ garment_metadata.description = <<"lingerie">>

\* ------------------------------------------------------------------------
\* C30
\* ------------------------------------------------------------------------

\* ways the vision check can fail: a non-success status, a timeout or
\* another exception, a reply that does not parse
VisionFailures == {"http_error", "timeout", "bad_json"}

\* C30: the vision sensitivity check is performed at most once per request
\* and only when the metadata check found nothing; when it fails, the
\* failure is swallowed and the request goes on as not sensitive: no
\* modesty contract, no record, the caller's metadata, and attempt 1 next
\* (provided the base prompt can be built from that metadata).
C30_VisionCheckFailsOpen ==
    /\ [](vision_calls <= 1)
    /\ [][(vision_calls' # vision_calls) =>
            /\ pc = "start"
            /\ vision_calls = 0
            /\ ~is_intimate_request(garment_metadata, category)
            /\ retry_info' = <<>>]_vars
    /\ [][(pc = "vision" /\ vision_outcome' \in VisionFailures) =>
            /\ ~intimate_flag'
            /\ ~modesty_applied'
            /\ retry_info' = <<>>
            /\ current_metadata' = garment_metadata
            /\ ~current_metadata'.modesty_contract
            /\ IF PromptBuildRaises(garment_metadata) THEN pc' = "raised"
               ELSE pc' = "attempt" /\ attempt' = 1 /\ current_prompt'.clause = <<>>]_vars

\* the vision check timed out; the request stands before attempt 1 with an
\* empty audit trail and no modesty contract
C30_Witness ==
    /\ vision_calls = 1
    /\ vision_outcome = "timeout"
    /\ pc = "attempt"
    /\ attempt = 1
    /\ retry_info = <<>>
    /\ ~modesty_applied
    /\ current_metadata = garment_metadata
    /\ sent = <<>>

\* ------------------------------------------------------------------------
\* C31
\* ------------------------------------------------------------------------

\* the call of check_rate_limit made in this step
RateCalled == Len(rate_log') = Len(rate_log) + 1

RateCall == rate_log'[Len(rate_log')]

\* what one call does to the bucket of its key and to the other buckets
RateStep ==
    RateCalled =>
        LET key == RateCall.key
            now == RateCall.now
            count == BucketGet(rate_buckets, key)[1]
            expires_at == BucketGet(rate_buckets, key)[2]
        IN  /\ expires_at <= now =>
                /\ RateCall.allowed
                /\ BucketGet(rate_buckets', key) = <<1, now + rate_window>>
            /\ (expires_at > now /\ count < rate_limit) =>
                /\ RateCall.allowed
                /\ BucketGet(rate_buckets', key) = <<count + 1, expires_at>>
            /\ (expires_at > now /\ count >= rate_limit) =>
                /\ ~RateCall.allowed
                /\ rate_buckets' = rate_buckets
            /\ \A other \in RateKeys \ {key} :
                  /\ (other \in DOMAIN rate_buckets') = (other \in DOMAIN rate_buckets)
                  /\ BucketGet(rate_buckets', other) = BucketGet(rate_buckets, other)

\* the calls of one key, in order
CallsOf(key) == SelectSeq(rate_log, LAMBDA call : call.key = key)

\* the allowed calls of a key made in the window that ends at expires_at
AllowedInWindow(key, expires_at) ==
    {i \in 1..Len(rate_log) :
        /\ rate_log[i].key = key
        /\ rate_log[i].allowed
        /\ rate_log[i].now >= expires_at - rate_window
        /\ rate_log[i].now < expires_at}

\* the windows a key has had: one per expiry time its bucket was given
WindowsOf(key) == {CallsOf(key)[i].expires_at : i \in 1..Len(CallsOf(key))}

RECURSIVE VerdictsAlone(_, _)
\* the verdicts the calls would get in a process that serves no other key
VerdictsAlone(calls, buckets) ==
    IF calls = <<>> THEN <<>>
    ELSE LET call == Head(calls)
         IN  <<RateAllowed(buckets, call.key, rate_limit, call.now)>>
             \o VerdictsAlone(Tail(calls),
                              RateBuckets(buckets, call.key, rate_limit, rate_window, call.now))

RateWindowsBounded ==
    rate_limit >= 1 =>
        \A key \in RateKeys : \A expires_at \in WindowsOf(key) :
            Cardinality(AllowedInWindow(key, expires_at)) <= rate_limit

RateKeysIndependent ==
    \A key \in RateKeys :
        VerdictsAlone(CallsOf(key), <<>>) = [i \in 1..Len(CallsOf(key)) |-> CallsOf(key)[i].allowed]

\* C31: check_rate_limit keeps a counter and an expiry time per key.  A
\* call at or after the expiry is allowed and resets the bucket to count 1
\* with the expiry one window after the call; a call before the expiry is
\* allowed and increments the counter while the counter is below the limit,
\* and is denied, leaving every bucket as it was, once the counter has
\* reached the limit.  So, for a limit of at least 1, at most `limit` calls
\* of a key are allowed within one window of that key's bucket, and the
\* verdicts of a key are those it would get if no other key were served.
C31_RateLimiter ==
    /\ [](RateWindowsBounded /\ RateKeysIndependent)
    /\ [][RateStep]_vars

\* with limit 2, a key was allowed twice in a window and then denied in it,
\* while another key was allowed in the same window and the first key was
\* allowed again once the window had expired
C31_Witness ==
    /\ rate_limit = 2
    /\ Len(rate_log) = 5
    /\ \E i, j, k, l, m \in 1..Len(rate_log) :
          /\ i < j /\ j < k /\ k < m
          /\ rate_log[i].key = rate_log[j].key
          /\ rate_log[j].key = rate_log[k].key
          /\ rate_log[k].key = rate_log[m].key
          /\ rate_log[l].key # rate_log[i].key
          /\ rate_log[i].allowed /\ rate_log[j].allowed
          /\ ~rate_log[k].allowed
          /\ rate_log[k].expires_at = rate_log[i].expires_at
          /\ rate_log[l].allowed
          /\ rate_log[l].now < rate_log[i].expires_at
          /\ rate_log[m].allowed
          /\ rate_log[m].now >= rate_log[i].expires_at

\* ------------------------------------------------------------------------
\* C32
\* ------------------------------------------------------------------------

\* generate_try_on has returned its result or raised
Terminated == pc \in {"success", "raised"}

\* C32: when every awaited call returns, fails or times out, every
\* execution of generate_try_on ends: it returns the image or raises, and
\* once it has done so it takes no further step.
C32_Terminates == <>[]Terminated

\* the longest execution: four requests, two of them after an LLM-assisted
\* rewrite, and the error of the last attempt raised
C32_Witness ==
    /\ pc = "raised"
    /\ result.attempt = max_attempts
    /\ Len(sent) = max_attempts
    /\ vision_calls = 1
    /\ rewrite_calls = 2
    /\ Len(retry_info) >= 3

\* ------------------------------------------------------------------------
\* C33
\* ------------------------------------------------------------------------

\* the arguments are those of the call in the http-error branch, which
\* passes only http_status and error_text
HttpErrorCall == cls_args.finish = "NONE" /\ cls_args.ratings = <<>>

\* C33: the verdict of is_content_rejection is the one the same
\* finish_reason, error_text and safety_ratings get with http_status absent,
\* whatever the HTTP status; so the call of the http-error branch returns
\* True for a body with a rejection keyword under every status.
C33_VerdictIgnoresStatus ==
    \A i \in 1..Len(cls_verdicts) :
        /\ cls_verdicts[i] = is_content_rejection(cls_args.finish, 0, cls_args.text, cls_args.ratings)
        /\ (HttpErrorCall /\ ContainsAny(cls_args.text, CONTENT_REJECTION_KEYWORDS)) => cls_verdicts[i]

\* the http-error branch classified a 500 and a 429 body that contain a
\* rejection keyword
C33_Witness ==
    /\ HttpErrorCall
    /\ cls_args.status \in {429, 500}
    /\ cls_args.text = <<"blocked">>
    /\ Len(cls_verdicts) = 1
    /\ cls_verdicts[1]

\* ------------------------------------------------------------------------
\* C34
\* ------------------------------------------------------------------------

\* positions of the records appended because an attempt failed: those whose
\* strategy is not one the pre-flight writes
FailureDriven == {i \in 1..Len(retry_info) : retry_info[i].strategy \notin PreflightStrategies}

\* the handling of a failed attempt, or of its rewrite call, ends in this step
FailureStep == pc \in {"image", "rewrite"} /\ pc' # "success"

FinalFailureLeavesNoTrace ==
    (pc = "image" /\ attempt = max_attempts /\ pc' # "success") =>
        /\ pc' = "raised"
        /\ retry_info' = retry_info
        /\ rewrite_calls' = rewrite_calls
        /\ current_metadata' = current_metadata
        /\ current_prompt' = current_prompt

FailureRecordNumbered ==
    (FailureStep /\ retry_info' # retry_info) =>
        /\ attempt < max_attempts
        /\ Len(retry_info') = Len(retry_info) + 1
        /\ SubSeq(retry_info', 1, Len(retry_info)) = retry_info
        /\ retry_info'[Len(retry_info')].attempt = attempt + 1
        /\ retry_info'[Len(retry_info')].strategy \notin PreflightStrategies

OneRecordPerFailure ==
    /\ Cardinality(FailureDriven) <= max_attempts - 1
    /\ \A i \in FailureDriven : retry_info[i].attempt \in 2..max_attempts
    /\ \A i, j \in FailureDriven : retry_info[i].attempt = retry_info[j].attempt => i = j

\* C34: a failure of the last attempt is followed by no rewrite and no
\* record, even when it is classified as a content rejection; a failure of
\* attempt n appends at most one record, numbered n + 1; so the audit trail
\* never holds more than max_attempts - 1 = 3 records written for failures.
C34_LastFailureNotRewritten ==
    /\ []OneRecordPerFailure
    /\ [][FinalFailureLeavesNoTrace /\ FailureRecordNumbered]_vars

\* the fourth attempt was rejected after three rewrites, two of them
\* LLM-assisted: the error is raised and the trail holds the three records
C34_Witness ==
    /\ pc = "raised"
    /\ attempt = max_attempts
    /\ ShouldRewrite(response)
    /\ Cardinality(FailureDriven) = max_attempts - 1
    /\ rewrite_calls = 2
    /\ {retry_info[i].attempt : i \in FailureDriven} = 2..max_attempts

\* ------------------------------------------------------------------------
\* C35
\* ------------------------------------------------------------------------

\* a text-rewrite request is issued in this step
RewriteIssued == rewrite_calls' # rewrite_calls

\* the image API answered with a failed HTTP status, or with a candidate
HttpFailure(r) == r.kind = "response" /\ ~r.is_success

CandidateResponse(r) == r.kind = "response" /\ r.is_success /\ r.has_candidates

RewriteIssuedOnlyOnLadder ==
    RewriteIssued =>
        /\ rewrite_calls' = rewrite_calls + 1
        /\ pc = "image" /\ pc' = "rewrite"
        /\ attempt \in {2, 3}
        /\ attempt' = attempt
        /\ Len(sent) = attempt
        /\ sent' = sent
        /\ HttpFailure(response') \/ CandidateResponse(response')
        /\ ShouldRewrite(response')

RewriteAwaitedBeforeNextRequest ==
    /\ rewrite_calls <= 2
    /\ rewrite_calls <= IF attempt >= 2 THEN attempt - 1 ELSE 0
    /\ pc = "rewrite" =>
          /\ attempt \in {2, 3}
          /\ Len(sent) = attempt
          /\ rewrite_calls >= 1

\* C35: a text-rewrite request is issued only while the failure of attempt
\* 2 or 3 is handled, before the request of the next attempt, and only when
\* that failure was classified as a content rejection and arrived as a
\* failed HTTP status or as a candidate; one at most per failed attempt, so
\* two at most per request; none after attempt 1 or 4, after a timeout or
\* an exception, or after a response without candidates.
C35_RewriteRequestsOnLadder ==
    /\ []RewriteAwaitedBeforeNextRequest
    /\ [][RewriteIssuedOnlyOnLadder]_vars

\* the second text-rewrite request of a call is awaited, after attempt 3
\* was rejected with a failed HTTP status
C35_Witness ==
    /\ pc = "rewrite"
    /\ attempt = 3
    /\ rewrite_calls = 2
    /\ HttpFailure(response)
    /\ response.status = 500
    /\ Len(sent) = 3

\* ------------------------------------------------------------------------
\* C36
\* ------------------------------------------------------------------------

\* C36: once the modesty contract has been applied to a request, every
\* image-generation request of it, those after a heuristic or an
\* LLM-assisted rewrite included, is built from metadata in which
\* modesty_contract and intimate_mode are true, and its prompt carries the
\* modesty-contract paragraph.
C36_ModestyContractKept ==
    modesty_applied =>
        \A i \in 1..Len(sent) :
            /\ sent[i].metadata.modesty_contract
            /\ sent[i].metadata.intimate_mode
            /\ sent[i].prompt.clause # <<>>

\* ------------------------------------------------------------------------
\* C37
\* ------------------------------------------------------------------------

\* C37: the heuristic rewrite is idempotent on metadata: an object that
\* rewrite_for_modesty_heuristic returned for some metadata of the request
\* is returned unchanged when the rewrite is applied to it again.
C37_HeuristicIdempotent ==
    \A i, j \in 1..Len(heap) :
        heap[j] = HeuristicMeta(heap[i]) => HeuristicMeta(heap[j]) = heap[j]

\* ------------------------------------------------------------------------
\* C38
\* ------------------------------------------------------------------------

KnobNames ==
    {"main_user_dim", "other_user_dim", "first_garment_dim", "other_garment_dim",
     "main_user_q", "other_user_q", "first_garment_q", "other_garment_q"}

\* the floors the claim names
KnobFloors ==
    [main_user_dim |-> 1600, main_user_q |-> 82,
     first_garment_dim |-> 1000, first_garment_q |-> 72,
     other_user_dim |-> 900, other_user_q |-> 70,
     other_garment_dim |-> 850, other_garment_q |-> 68]

KnobsNeverGrow == \A name \in KnobNames : knobs'[name] <= knobs[name]

KnobsAboveFloors == \A name \in KnobNames : knobs[name] >= KnobFloors[name]

\* the main subject image is encoded at targets no lower than any other image
MainImageLeads ==
    /\ \A i \in 1..kept_user :
          /\ EncodedUsers(knobs)[1].max_dim >= EncodedUsers(knobs)[i].max_dim
          /\ EncodedUsers(knobs)[1].jpeg_quality >= EncodedUsers(knobs)[i].jpeg_quality
    /\ kept_user >= 1 =>
          \A i \in 1..kept_clothing :
              /\ EncodedUsers(knobs)[1].max_dim >= EncodedGarments(knobs)[i].max_dim
              /\ EncodedUsers(knobs)[1].jpeg_quality >= EncodedGarments(knobs)[i].jpeg_quality
    /\ knobs.main_user_dim >= knobs.other_user_dim
    /\ knobs.main_user_q >= knobs.other_user_q

\* C38: in the payload-budget loop, under the default configuration, no
\* dimension or JPEG-quality target grows from one iteration to the next,
\* none falls below its floor (main subject image 1600 px / 82, first
\* garment 1000 px / 72, other subject images 900 px / 70, other garments
\* 850 px / 68), and the main subject image's targets are at least those of
\* every other image.
C38_TargetsShrinkToFloors ==
    /\ [](KnobsAboveFloors /\ MainImageLeads)
    /\ [][KnobsNeverGrow]_vars

\* all six iterations ran on several subject and garment images: the first
\* garment has reached its floor last, the main subject image sits at its own
C38_Witness ==
    /\ budget_i = 6
    /\ reencodes = 6
    /\ kept_user >= 2
    /\ kept_clothing >= 2
    /\ knobs = KnobFloors
    /\ OverBudget(total_image_bytes)

\* ------------------------------------------------------------------------
\* C39
\* ------------------------------------------------------------------------

\* the call has returned an image larger than max_bytes
ReturnedOverBudget == nb_pc = "returned" /\ nb_out.bytes > nb_args.max_bytes

\* an encoding at the smallest dimension and the lowest quality was made
FloorTried ==
    \E i \in 1..Len(nb_tried) :
        nb_tried[i] = <<nb_args.min_dimension, nb_args.min_jpeg_quality>>

\* C39: normalize_image_bytes_with_budget returns a result larger than
\* max_bytes only after an encoding at max dimension min_dimension and
\* quality min_jpeg_quality has been made, and it makes at most 8 encodings.
C39_OverBudgetOnlyAfterFloor ==
    /\ Len(nb_encodings) <= 8
    /\ ReturnedOverBudget => FloorTried

====
